---- MODULE Spec2Model ----
(***************************************************************************)
(* A model of AutoPas: the traversal selector, the Verlet-list rebuild     *)
(* cadence, the Verlet cluster lists container, the octree traversals, the *)
(* lock-based sliced traversal, the c08 colouring and the cluster towers.  *)
(* Every subsystem has its own variables and its own specification; the    *)
(* variables of the other subsystems stay parked while one runs.           *)
(***************************************************************************)
EXTENDS Integers, Sequences, FiniteSets, TLC

VARIABLES
  \* ---- TraversalSelector (selectors/TraversalSelector.h) ----
  _currentTraversal,        \* TraversalOption; NoOption while indeterminate
  _isInitialized,
  _isTuning,
  _allowedTraversalOptions, \* const std::vector<TraversalOption>
  _traversalTimes,          \* std::vector<TimeMeasurement>
  selResult,                \* what that call returned or raised
  evaluating,               \* the caller is inside a pairwise traversal
  activeTraversal,          \* the traversal object the caller is running
  stepsLeft,                \* base steps the running traversal still has
  committed,                \* samples and strategy of the last commit
  \* ---- a tuning phase driving the selector (spec 4.6) ----
  tpTimings,                \* traversal -> the time every run of it takes
  tpApplicable,             \* traversals whose isApplicable() is true
  tpStrategy,               \* SelectorStrategy of the tuner
  tpMapOrder,               \* iteration order measurementsMap had last time
  tpPc,                     \* what the tuner does next, see TPPcs
  tpCommits,                \* the traversal each finished phase committed
  tpIgnored,                \* measurements of irrelevant functors reported
  \* ---- AutoPasConfigurationCommunicator (utils/AutoPasConfigurationCommunicator.cpp) ----
  dcOutcome,                \* what distributeConfigurations did
  dcEmptySpace,             \* its search space held no configuration
  mpiCommSize,              \* ranks of the communicator
  mpiLocal,                 \* rank -> localOptimalConfig, localOptimalTime
  mpiPc,                    \* rank -> the call of optimizeConfiguration it is in
  optimalTimeOut,           \* rank -> result of the first Allreduce
  optimalRankIn,            \* rank -> what it sends to the second Allreduce
  optimalRankOut,           \* rank -> result of the second Allreduce
  mpiReturned,              \* rank -> the configuration it returned
  \* ---- VerletLists, rebuild cadence (tests/testAutopas/VerletListsTest.cpp) ----
  _rebuildFrequency,
  _traversalsSinceLastRebuild,
  _neighborListIsValid,
  numOwned,                 \* owned particles in the cells
  numHalo,                  \* halo particles in the cells
  numListed,                \* particles the neighbor lists were built for
  pairwiseCalls,            \* iteratePairwiseAoS calls since construction
                            \* or since the last add / update
  everChanged,              \* an add or update happened since construction
  rebuiltInLastCall,        \* the last iteratePairwiseAoS rebuilt the lists
  \* ---- VerletLists, list validity (tests/testAutopas/VerletListsTest.cpp) ----
  vvR,                      \* particle id -> position (x, in tenths)
  vvCellOf,                 \* particle id -> index of the cell holding it
  _aosNeighborLists,        \* the pairs the neighbor lists hold
  vvListIsValid,            \* _neighborListIsValid of this container
  vvTraversalsSince,        \* _traversalsSinceLastRebuild of this container
  vvBuiltAt,                \* particle id -> position at the last rebuild
  vvReported,               \* result of the last checkNeighborListsAreValid
  \* ---- VerletClusterLists (containers/verletClusterLists/VerletClusterLists.h) ----
  _isValid,                 \* ValidityState
  _particlesToAdd,          \* particles waiting for the next rebuild
  _towers,                  \* particles sorted into the towers
  _neighborLists,           \* ids of the particles the cluster lists cover
  vclLast,                  \* last call: its name, outcome and particles
  \* ---- Octree traversals (containers/octree/traversals) ----
  otTraversal,              \* getTraversalType() of the running traversal
  otUseNewton3,             \* its useNewton3 template argument
  otNumOwnedLeaves,         \* leaves 1..n are owned, the others are halo
  otNeighbors,              \* unordered pairs of adjacent leaves
  otLeafOf,                 \* particle -> leaf holding it
  otPhase,                  \* "idle", "traversing" or "ended"
  otNextLeaf,               \* position of the loop over the owned leaves
  otCalls,                  \* <<p, q>> -> number of functor calls (p, q)
  \* ---- lock-based sliced traversal (spec 4.4, 5) ----
  _sliceThickness,          \* slice -> number of layers of the slice
  locks,                    \* boundary plane -> slice holding its lock, or 0
  sliceOffset,              \* slice -> layer its worker is at
  slPc,                     \* slice -> "ready", "touching" or "done"
  \* ---- c08 traversal (spec 4.4; tests/testAutopas/C08TraversalTest.cpp) ----
  _cellsPerDimension,       \* cells of the block in x, y and z
  c08Colour,                \* colour being processed, NumColours when done
  c08Taken,                 \* base cells of the colour handed to a thread
  c08Current,               \* thread -> base cell it processes, or NoBase
  \* ---- ClusterTower (containers/verletClusterLists/ClusterTower.h) ----
  _particles,               \* the particles of the tower, padding included
  _clusters,                \* index of the first particle of each cluster
  _numDummyParticles,
  ctPhase,                  \* "adding", "clustered" or "filled"
  ctCalls,                  \* <<p, q>>: the functor was called with p and q
  \* ---- Octree container (containers/octree/Octree.h) ----
  containerType,            \* getContainerType() of the container in use
  _cells,                   \* the OWNED and the HALO tree, as particle sets
  ocLast,                   \* last call and the particles it returned
  \* ---- CellBlock3D (containers/CellBlock3D.h) ----
  _cellsPerDimensionWithHalo,
  _vec1D,                   \* the particles with the 3-D index of their cell
  cbLast,                   \* name of the last call
  \* ---- VerletListsCellsNeighborList ----
  nlCells,                  \* cell of the linked cells -> its particles
  _aosNeighborList,         \* cell -> (particle, its neighbors) entries
  _particleToCellMap,       \* particle -> <<cell, index within the cell>>
  nlLast,                   \* last call and its useNewton3
  nlPrevious,               \* the call before it
  \* ---- OctreeLeafNode (containers/octree/OctreeLeafNode.h) ----
  olRootSide,               \* sides of the box of the root of the tree
  olInteractionLength,      \* _interactionLength
  olLevel,                  \* depth of the leaf below the root
  olSize,                   \* _particles.size() of the leaf
  olLast,                   \* what the last call returned
  \* ---- VerletClusterLists, threads inside addParticleImpl and the rebuild ----
  vcAdding,                 \* the particle a thread is about to push_back
  vcBuilder,                \* how far rebuildTowersAndClusters has come
  \* ---- VerletClusterLists, the cluster-thread-partition ----
  cpTowers,                 \* tower -> the neighbor counts of its clusters
  _clusterThreadPartition,  \* std::vector<ClusterRange>
  cpLast                    \* the last call

selVars == <<_currentTraversal, _isInitialized, _isTuning,
             _allowedTraversalOptions, _traversalTimes, selResult,
             evaluating, activeTraversal, stepsLeft, committed>>

tpVars == <<tpTimings, tpApplicable, tpStrategy, tpMapOrder, tpPc,
            tpCommits, tpIgnored>>

commVars == <<dcOutcome, dcEmptySpace, mpiCommSize, mpiLocal, mpiPc,
              optimalTimeOut, optimalRankIn, optimalRankOut, mpiReturned>>

vlVars == <<_rebuildFrequency, _traversalsSinceLastRebuild,
            _neighborListIsValid, numOwned, numHalo, numListed,
            pairwiseCalls, everChanged, rebuiltInLastCall>>

vvVars == <<vvR, vvCellOf, _aosNeighborLists, vvListIsValid,
            vvTraversalsSince, vvBuiltAt, vvReported>>

vclVars == <<_isValid, _particlesToAdd, _towers, _neighborLists, vclLast>>

otVars == <<otTraversal, otUseNewton3, otNumOwnedLeaves, otNeighbors,
            otLeafOf, otPhase, otNextLeaf, otCalls>>

slVars == <<_sliceThickness, locks, sliceOffset, slPc>>

c08Vars == <<_cellsPerDimension, c08Colour, c08Taken, c08Current>>

ctVars == <<_particles, _clusters, _numDummyParticles, ctPhase, ctCalls>>

ocVars == <<containerType, _cells, ocLast>>

cbVars == <<_cellsPerDimensionWithHalo, _vec1D, cbLast>>

nlVars == <<nlCells, _aosNeighborList, _particleToCellMap, nlLast,
           nlPrevious>>

olVars == <<olRootSide, olInteractionLength, olLevel, olSize, olLast>>

vcVars == <<vcAdding, vcBuilder>>

cpVars == <<cpTowers, _clusterThreadPartition, cpLast>>

\* the variables of the subsystems other than the one named
selOthers == <<vlVars, vvVars, vclVars, otVars, slVars, c08Vars, ctVars,
  commVars, ocVars, cbVars, nlVars, olVars, vcVars, cpVars>>
vlOthers == <<selVars, tpVars, vvVars, vclVars, otVars, slVars, c08Vars,
  ctVars, commVars, ocVars, cbVars, nlVars, olVars, vcVars, cpVars>>
vvOthers == <<selVars, tpVars, vlVars, vclVars, otVars, slVars, c08Vars,
  ctVars, commVars, ocVars, cbVars, nlVars, olVars, vcVars, cpVars>>
vclOthers == <<selVars, tpVars, vlVars, vvVars, otVars, slVars, c08Vars,
  ctVars, commVars, ocVars, cbVars, nlVars, olVars, vcVars, cpVars>>
otOthers == <<selVars, tpVars, vlVars, vvVars, vclVars, slVars, c08Vars,
  ctVars, commVars, ocVars, cbVars, nlVars, olVars, vcVars, cpVars>>
slOthers == <<selVars, tpVars, vlVars, vvVars, vclVars, otVars, c08Vars,
  ctVars, commVars, ocVars, cbVars, nlVars, olVars, vcVars, cpVars>>
c08Others == <<selVars, tpVars, vlVars, vvVars, vclVars, otVars, slVars,
  ctVars, commVars, ocVars, cbVars, nlVars, olVars, vcVars, cpVars>>
ctOthers == <<selVars, tpVars, vlVars, vvVars, vclVars, otVars, slVars,
  c08Vars, commVars, ocVars, cbVars, nlVars, olVars, vcVars, cpVars>>
commOthers == <<selVars, vlVars, vvVars, vclVars, otVars, slVars,
  c08Vars, ctVars, ocVars, cbVars, nlVars, olVars, vcVars, cpVars>>
ocOthers == <<selVars, tpVars, vlVars, vvVars, vclVars, otVars, slVars,
  c08Vars, ctVars, commVars, cbVars, nlVars, olVars, vcVars, cpVars>>
cbOthers == <<selVars, tpVars, vlVars, vvVars, vclVars, otVars, slVars,
  c08Vars, ctVars, commVars, ocVars, nlVars, olVars, vcVars, cpVars>>
nlOthers == <<selVars, tpVars, vlVars, vvVars, vclVars, otVars, slVars,
  c08Vars, ctVars, commVars, ocVars, cbVars, olVars, vcVars, cpVars>>
olOthers == <<selVars, tpVars, vlVars, vvVars, vclVars, otVars, slVars,
  c08Vars, ctVars, commVars, ocVars, cbVars, nlVars, vcVars, cpVars>>
vcOthers == <<selVars, tpVars, vlVars, vvVars, otVars, slVars, c08Vars,
  ctVars, commVars, ocVars, cbVars, nlVars, olVars, cpVars>>
cpOthers == <<selVars, tpVars, vlVars, vvVars, vclVars, otVars, slVars,
  c08Vars, ctVars, commVars, ocVars, cbVars, nlVars, olVars, vcVars>>

vars == <<selVars, tpVars, vlVars, vvVars, vclVars, otVars, slVars,
          c08Vars, ctVars, commVars, ocVars, cbVars, nlVars, olVars,
          vcVars, cpVars>>

\* ---------------------------------------------------------------------
\* Bounds
\* ---------------------------------------------------------------------
NumOptions == 2
MaxAllowed == 2
MaxTime == 2
MaxMeasurements == 3
MaxSteps == 1
MaxR == 3
MaxCalls == 7
MaxParticles == 1
NumParticleIds == 2
NumLeaves == 2
NumOTParticles == 2
NumSlices == 3
MaxNeighborSteps == 3
MaxClustersPerTower == 2
MaxCPTowers == 2
MaxOmpThreads == 3
MaxThickness == 3
MaxDim == 4
NumThreads == 2
MaxTowerParticles == 5
MaxZ == 1
MaxPhases == 2
MaxIgnored == 1
NumRanks == 2
NumContainers == 2
MaxCellSizeFactors == 1
MaxCellsPerDim == 2
NumCBParticles == 1
NumNLCells == 3
MaxSide == 4
MaxInteractionLength == 2
MaxLeafParticles == 18

\* ---------------------------------------------------------------------
\* Generic helpers
\* ---------------------------------------------------------------------
Range(s) == {s[i] : i \in 1..Len(s)}

RECURSIVE SeqSum(_)
SeqSum(s) == IF s = <<>> THEN 0 ELSE Head(s) + SeqSum(Tail(s))

Min(S) == CHOOSE x \in S : \A y \in S : x <= y

\* std::sort on a vector<long>: the ascending arrangement of the values
RECURSIVE SortTimes(_)
SortTimes(s) ==
  IF s = <<>> THEN <<>>
  ELSE LET m == Min(Range(s))
           i == CHOOSE k \in 1..Len(s) : s[k] = m
       IN <<m>> \o SortTimes(SubSeq(s, 1, i - 1) \o SubSeq(s, i + 1, Len(s)))

SeqsUpTo(S, n) == UNION {[1..k -> S] : k \in 0..n}

\* ---------------------------------------------------------------------
\* TraversalSelector
\* ---------------------------------------------------------------------
TraversalOptions == 1..NumOptions
NoOption == 0
SelectorStrategies == {"fastestAbs", "fastestMean", "fastestMedian"}
Times == 1..MaxTime
TimeMeasurement == [traversal : TraversalOptions, time : Times]
NoCommit == [times |-> <<>>, strategy |-> "none"]

\* the times measured for one traversal, in measurement order
\* (measurementsMap[t.traversal].push_back(t.time))
RECURSIVE TimesOf(_, _)
TimesOf(ts, o) ==
  IF ts = <<>> THEN <<>>
  ELSE (IF Head(ts).traversal = o THEN <<Head(ts).time>> ELSE <<>>)
         \o TimesOf(Tail(ts), o)

MeasuredOptions(ts) == {ts[i].traversal : i \in 1..Len(ts)}

\* long meanTime = accumulate(..., 0l) / size : integer division
MeanTime(s) == SeqSum(s) \div Len(s)

\* sort; long medianTime = m.second[m.second.size() / 2] (0-based index)
MedianTime(s) == SortTimes(s)[(Len(s) \div 2) + 1]

\* findFastestAbsTraversal: a strict "<" scan in measurement order keeps
\* the first measurement with the smallest time.
findFastestAbsTraversal(ts) ==
  LET m == Min({ts[i].time : i \in 1..Len(ts)})
      i == Min({k \in 1..Len(ts) : ts[k].time = m})
  IN {ts[i].traversal}

\* findFastestMeanTraversal: a strict "<" scan over an unordered_map, whose
\* iteration order is unspecified: any option with the smallest mean can be
\* the first one met and so the one kept.
findFastestMeanTraversalBroken(ts) ==
  LET opts == MeasuredOptions(ts)
      m == Min({0 - MeanTime(TimesOf(ts, o)) : o \in opts})
  IN {o \in opts : 0 - MeanTime(TimesOf(ts, o)) = m}

findFastestMeanTraversal(ts) ==
  LET opts == MeasuredOptions(ts)
      m == Min({MeanTime(TimesOf(ts, o)) : o \in opts})
  IN {o \in opts : MeanTime(TimesOf(ts, o)) = m}

\* findFastestMedianTraversal: as the mean, with the median.
findFastestMedianTraversal(ts) ==
  LET opts == MeasuredOptions(ts)
      m == Min({MedianTime(TimesOf(ts, o)) : o \in opts})
  IN {o \in opts : MedianTime(TimesOf(ts, o)) = m}

Fastest(strategy, ts) ==
  CASE strategy = "fastestAbs" -> findFastestAbsTraversal(ts)
    [] strategy = "fastestMean" -> findFastestMeanTraversal(ts)
    [] strategy = "fastestMedian" -> findFastestMedianTraversal(ts)

\* std::find: 1-based index of the first occurrence, Len+1 for end()
Find(s, x) ==
  IF x \in Range(s) THEN Min({i \in 1..Len(s) : s[i] = x}) ELSE Len(s) + 1

\* The while loop of selectNextTraversal, from (cur, tuning), with the set
\* of applicable options of this call.  fuel bounds the iterations: the
\* loop's state is (cur, tuning), so a run longer than the number of such
\* states never ends.  ub: the loop incremented end(), which find returns
\* when _currentTraversal is not an allowed option.
RECURSIVE selectNextLoop(_, _, _, _, _)
selectNextLoop(allowed, applicable, cur, tuning, fuel) ==
  IF fuel = 0
  THEN [cur |-> cur, tuning |-> tuning, init |-> FALSE, ub |-> FALSE,
        res |-> "diverges"]
  ELSE
    IF ~tuning
    THEN IF Len(allowed) = 0
         THEN [cur |-> cur, tuning |-> tuning, init |-> FALSE, ub |-> FALSE,
               res |-> "null"]
         ELSE IF allowed[1] \in applicable
              THEN [cur |-> allowed[1], tuning |-> TRUE, init |-> TRUE,
                    ub |-> FALSE, res |-> "traversal"]
              ELSE selectNextLoop(allowed, applicable, allowed[1], TRUE,
                                  fuel - 1)
    ELSE LET next == Find(allowed, cur) + 1
         IN IF next > Len(allowed)
            THEN [cur |-> cur, tuning |-> FALSE, init |-> FALSE,
                  ub |-> (next > Len(allowed) + 1), res |-> "null"]
            ELSE IF allowed[next] \in applicable
                 THEN [cur |-> allowed[next], tuning |-> TRUE, init |-> TRUE,
                       ub |-> FALSE, res |-> "traversal"]
                 ELSE selectNextLoop(allowed, applicable, allowed[next], TRUE,
                                     fuel - 1)

\* A selector call is made by the single-threaded outer loop: never while
\* a traversal runs, and never after a call that did not return.
SelIdleBroken == selResult \notin {"diverges", "undefined"}

SelIdle == ~evaluating /\ selResult \notin {"diverges", "undefined"}

\* if (pairwiseFunctor.isRelevantForTuning()) _traversalTimes.push_back(..)
pushBackIfRelevantBroken(relevant, ts, measurement) == Append(ts, measurement)

pushBackIfRelevant(relevant, ts, measurement) ==
  IF relevant THEN Append(ts, measurement) ELSE ts

\* addTimeMeasurement(pairwiseFunctor, traversal, time)
addTimeMeasurement(relevant, traversal, time) ==
  /\ SelIdle
  /\ Len(_traversalTimes) < MaxMeasurements
  /\ _traversalTimes' =
       pushBackIfRelevant(relevant, _traversalTimes,
                          [traversal |-> traversal, time |-> time])
  /\ selResult' = "void"
  /\ committed' = IF relevant THEN NoCommit ELSE committed
  /\ UNCHANGED <<_currentTraversal, _isInitialized, _isTuning,
                 _allowedTraversalOptions, evaluating, activeTraversal,
                 stepsLeft>>
  /\ UNCHANGED selOthers

\* selectNextTraversal(pairwiseFunctor)
selectNextTraversal(applicable) ==
  /\ SelIdle
  /\ LET r == selectNextLoop(_allowedTraversalOptions, applicable,
                             _currentTraversal, _isTuning,
                             2 * Len(_allowedTraversalOptions) + 2)
     IN /\ _currentTraversal' = r.cur
        /\ _isTuning' = r.tuning
        /\ _isInitialized' = (_isInitialized \/ r.init)
        /\ \E crash \in (IF r.ub THEN BOOLEAN ELSE {FALSE}) :
             selResult' = IF crash THEN "undefined" ELSE r.res
        /\ committed' = IF r.cur = _currentTraversal THEN committed
                        ELSE NoCommit
  /\ UNCHANGED <<_allowedTraversalOptions, _traversalTimes, evaluating,
                 activeTraversal, stepsLeft>>
  /\ UNCHANGED selOthers

\* selectOptimalTraversal(strategy, pairwiseFunctor)
selectOptimalTraversal(strategy) ==
  /\ SelIdle
  /\ IF _traversalTimes = <<>>
     THEN /\ selResult' = "exception: before measuring"
          /\ UNCHANGED <<_currentTraversal, _traversalTimes, committed>>
     ELSE /\ \E o \in Fastest(strategy, _traversalTimes) :
               _currentTraversal' = o
          /\ _traversalTimes' = <<>>
          /\ selResult' = "traversal"
          /\ committed' = [times |-> _traversalTimes, strategy |-> strategy]
  /\ UNCHANGED <<_isInitialized, _isTuning, _allowedTraversalOptions,
                 evaluating, activeTraversal, stepsLeft>>
  /\ UNCHANGED selOthers

\* getOptimalTraversal(pairwiseFunctor)
getOptimalTraversal ==
  /\ SelIdle
  /\ selResult' = IF ~_isInitialized
                  THEN "exception: no traversal selected yet"
                  ELSE "traversal"
  /\ UNCHANGED <<_currentTraversal, _isInitialized, _isTuning,
                 _allowedTraversalOptions, _traversalTimes, evaluating,
                 activeTraversal, stepsLeft, committed>>
  /\ UNCHANGED selOthers

\* selectTraversal(traversalOption)
selectTraversal(traversalOption) ==
  /\ SelIdle
  /\ _currentTraversal' = traversalOption
  /\ selResult' = "void"
  /\ committed' = IF traversalOption = _currentTraversal THEN committed
                  ELSE NoCommit
  /\ UNCHANGED <<_isInitialized, _isTuning, _allowedTraversalOptions,
                 _traversalTimes, evaluating, activeTraversal, stepsLeft>>
  /\ UNCHANGED selOthers

\* generateAllAllowedTraversals(pairwiseFunctor)
generateAllAllowedTraversals ==
  /\ SelIdle
  /\ selResult' = IF Len(_allowedTraversalOptions) = 0
                  THEN "exception: no traversals were generated"
                  ELSE "traversals"
  /\ UNCHANGED <<_currentTraversal, _isInitialized, _isTuning,
                 _allowedTraversalOptions, _traversalTimes, evaluating,
                 activeTraversal, stepsLeft, committed>>
  /\ UNCHANGED selOthers

\* The caller starts the pairwise evaluation with the traversal object the
\* selector just returned; the outer loop is single-threaded and makes no
\* selector call until the parallel region is left.
BeginTraversal(steps) ==
  /\ ~evaluating
  /\ selResult = "traversal"
  /\ evaluating' = TRUE
  /\ activeTraversal' = _currentTraversal
  /\ stepsLeft' = steps
  /\ UNCHANGED <<_currentTraversal, _isInitialized, _isTuning,
                 _allowedTraversalOptions, _traversalTimes,
                 selResult, committed>>
  /\ UNCHANGED selOthers

TraversalStep ==
  /\ evaluating
  /\ stepsLeft > 0
  /\ stepsLeft' = stepsLeft - 1
  /\ UNCHANGED <<_currentTraversal, _isInitialized, _isTuning,
                 _allowedTraversalOptions, _traversalTimes,
                 selResult, evaluating, activeTraversal, committed>>
  /\ UNCHANGED selOthers

EndTraversal ==
  /\ evaluating
  /\ stepsLeft = 0
  /\ evaluating' = FALSE
  /\ activeTraversal' = NoOption
  /\ selResult' = "void"
  /\ UNCHANGED <<_currentTraversal, _isInitialized, _isTuning,
                 _allowedTraversalOptions, _traversalTimes,
                 stepsLeft, committed>>
  /\ UNCHANGED selOthers

SelInit ==
  /\ _currentTraversal = NoOption
  /\ _isInitialized = FALSE
  /\ _isTuning = FALSE
  /\ _allowedTraversalOptions \in SeqsUpTo(TraversalOptions, MaxAllowed)
  /\ _traversalTimes = <<>>
  /\ selResult = "void"
  /\ evaluating = FALSE
  /\ activeTraversal = NoOption
  /\ stepsLeft = 0
  /\ committed = NoCommit

SelNext ==
  \/ /\ \E relevant \in BOOLEAN, o \in TraversalOptions, t \in Times :
          addTimeMeasurement(relevant, o, t)
     /\ UNCHANGED tpVars
  \/ /\ \E applicable \in SUBSET TraversalOptions :
          selectNextTraversal(applicable)
     /\ UNCHANGED tpVars
  \/ /\ \E strategy \in SelectorStrategies :
          selectOptimalTraversal(strategy)
     /\ UNCHANGED tpVars
  \/ getOptimalTraversal /\ UNCHANGED tpVars
  \/ generateAllAllowedTraversals /\ UNCHANGED tpVars
  \/ /\ \E o \in TraversalOptions : selectTraversal(o)
     /\ UNCHANGED tpVars
  \/ /\ \E steps \in 0..MaxSteps : BeginTraversal(steps)
     /\ UNCHANGED tpVars
  \/ TraversalStep /\ UNCHANGED tpVars
  \/ EndTraversal /\ UNCHANGED tpVars

\* ---------------------------------------------------------------------
\* VerletLists: rebuild cadence
\* ---------------------------------------------------------------------
\* needsRebuild(): the list is not valid, or the rebuild frequency is reached
needsRebuildBroken ==
  \/ ~_neighborListIsValid
  \/ _traversalsSinceLastRebuild > _rebuildFrequency

needsRebuild ==
  \/ ~_neighborListIsValid
  \/ _traversalsSinceLastRebuild >= _rebuildFrequency

\* the counter after updateVerletListsAoS: the rebuild restarts the count
sinceAfterRebuildBroken == _traversalsSinceLastRebuild

sinceAfterRebuild == 0

\* iteratePairwiseAoS(f, useNewton3): rebuild when needed
\* (updateVerletListsAoS makes the list valid and restarts the count),
\* iterate the lists, count the traversal.
iteratePairwiseAoS ==
  /\ pairwiseCalls < MaxCalls
  /\ IF needsRebuild
     THEN /\ _neighborListIsValid' = TRUE
          /\ _traversalsSinceLastRebuild' = sinceAfterRebuild + 1
          /\ numListed' = numOwned + numHalo
          /\ rebuiltInLastCall' = TRUE
     ELSE /\ _neighborListIsValid' = _neighborListIsValid
          /\ _traversalsSinceLastRebuild' = _traversalsSinceLastRebuild + 1
          /\ numListed' = numListed
          /\ rebuiltInLastCall' = FALSE
  /\ pairwiseCalls' = pairwiseCalls + 1
  /\ UNCHANGED <<_rebuildFrequency, numOwned, numHalo, everChanged>>
  /\ UNCHANGED vlOthers

\* the flag after updateContainer
validAfterUpdateBroken == _neighborListIsValid

validAfterUpdate == FALSE

\* addParticle(p): the particle goes to the cells, the list becomes invalid
vlAddParticle ==
  /\ numOwned < MaxParticles
  /\ numOwned' = numOwned + 1
  /\ _neighborListIsValid' = FALSE
  /\ pairwiseCalls' = 0
  /\ everChanged' = TRUE
  /\ UNCHANGED <<_rebuildFrequency, _traversalsSinceLastRebuild, numHalo,
                 numListed, rebuiltInLastCall>>
  /\ UNCHANGED vlOthers

\* addHaloParticle(p)
vlAddHaloParticle ==
  /\ numHalo < MaxParticles
  /\ numHalo' = numHalo + 1
  /\ _neighborListIsValid' = FALSE
  /\ pairwiseCalls' = 0
  /\ everChanged' = TRUE
  /\ UNCHANGED <<_rebuildFrequency, _traversalsSinceLastRebuild, numOwned,
                 numListed, rebuiltInLastCall>>
  /\ UNCHANGED vlOthers

\* updateContainer(): the cells are re-sorted, the list becomes invalid
vlUpdateContainer ==
  /\ _neighborListIsValid' = validAfterUpdate
  /\ pairwiseCalls' = 0
  /\ everChanged' = TRUE
  /\ UNCHANGED <<_rebuildFrequency, _traversalsSinceLastRebuild, numOwned,
                 numHalo, numListed, rebuiltInLastCall>>
  /\ UNCHANGED vlOthers

VLInit ==
  /\ _rebuildFrequency \in 1..MaxR
  /\ _traversalsSinceLastRebuild = 0
  /\ _neighborListIsValid = FALSE
  /\ numOwned = 0
  /\ numHalo = 0
  /\ numListed = 0
  /\ pairwiseCalls = 0
  /\ everChanged = FALSE
  /\ rebuiltInLastCall = FALSE

VLNext ==
  \/ iteratePairwiseAoS
  \/ vlAddParticle
  \/ vlAddHaloParticle
  \/ vlUpdateContainer

\* ---------------------------------------------------------------------
\* VerletLists: validity of the neighbor lists.  One axis, lengths in
\* tenths: the tests move particles along x only.
\* ---------------------------------------------------------------------
vlBoxMin == 0
vlBoxMax == 100
vlCutoff == 20
vlSkin == 3
vlRebuildFrequency == 3
NotAdded == 0
vvIds == {1, 2}
\* the positions a particle is given: particle 1 around the first cell
\* boundary, particle 2 inside the second or the fourth cell
vvPositions(i) == IF i = 1 THEN {10, 11, 14, 16, 24, 25, 27} ELSE {35, 75}

Abs(x) == IF x < 0 THEN 0 - x ELSE x
Max(a, b) == IF a > b THEN a ELSE b

\* CellBlock3D::rebuild: cells of at least the interaction length
vlCellsPerDim == Max((vlBoxMax - vlBoxMin) \div (vlCutoff + vlSkin), 1)
vlCellLength == (vlBoxMax - vlBoxMin) \div vlCellsPerDim
vlCellsPerDimensionWithHalo == vlCellsPerDim + 2

\* CellBlock3D::get3DIndexOfPosition, one dimension; cell 0 and the last
\* cell are the halo cells
get3DIndexOfPosition(x) ==
  IF x >= vlBoxMax THEN vlCellsPerDimensionWithHalo - 1
  ELSE IF x < vlBoxMin THEN 0
  ELSE LET value == ((x - vlBoxMin) \div vlCellLength) + 1
       IN IF value > vlCellsPerDimensionWithHalo - 1
          THEN vlCellsPerDimensionWithHalo - 1
          ELSE Max(value, 0)

cellMin(c) == vlBoxMin + (c - 1) * vlCellLength
cellMax(c) == vlBoxMin + c * vlCellLength

vvPresent == {i \in vvIds : vvR[i] # NotAdded}

\* a particle lies more than skin/2 outside the cell that holds it
\* (twice the lengths, to stay in the integers)
outsideCellBroken(i) ==
  \/ vvR[i] < cellMin(vvCellOf[i])
  \/ vvR[i] >= cellMax(vvCellOf[i])

outsideCell(i) ==
  \/ 2 * vvR[i] < 2 * cellMin(vvCellOf[i]) - vlSkin
  \/ 2 * vvR[i] >= 2 * cellMax(vvCellOf[i]) + vlSkin

isContainerUpdateNeeded == \E i \in vvPresent : outsideCell(i)

\* the pairs the cell-pair iteration offers: same or adjacent cells
vvCellPairs(cellOf, present) ==
  {pr \in {{i, j} : i \in present, j \in present} :
     /\ Cardinality(pr) = 2
     /\ \A i, j \in pr : Abs(cellOf[i] - cellOf[j]) <= 1}

\* VerletListGeneratorFunctor: pairs within cutoff + skin
vvGenerateLists(r, cellOf, present) ==
  {pr \in vvCellPairs(cellOf, present) :
     \E i, j \in pr : i # j /\ Abs(r[i] - r[j]) < vlCutoff + vlSkin}

\* VerletListValidityCheckerFunctor: no pair within the cutoff is missing
\* from the lists
vvListsCoverCutoff ==
  \A pr \in vvCellPairs(vvCellOf, vvPresent) :
    (\E i, j \in pr : i # j /\ Abs(vvR[i] - vvR[j]) < vlCutoff)
      => pr \in _aosNeighborLists

vvNeedsRebuild ==
  ~vvListIsValid \/ vvTraversalsSince >= vlRebuildFrequency

vvSortIntoCells ==
  [i \in vvIds |-> IF vvR[i] = NotAdded THEN 0
                    ELSE get3DIndexOfPosition(vvR[i])]

\* iteratePairwiseAoS2(f): rebuild when needed (each particle in the cell
\* containing it, lists of the pairs within cutoff + skin), then iterate
iteratePairwiseAoS2 ==
  /\ IF vvNeedsRebuild
     THEN /\ vvCellOf' = vvSortIntoCells
          /\ _aosNeighborLists' =
               vvGenerateLists(vvR, vvSortIntoCells, vvPresent)
          /\ vvBuiltAt' = vvR
          /\ vvListIsValid' = TRUE
          /\ vvTraversalsSince' = 1
     ELSE /\ vvTraversalsSince' = vvTraversalsSince + 1
          /\ UNCHANGED <<vvCellOf, _aosNeighborLists, vvBuiltAt,
                         vvListIsValid>>
  /\ vvReported' = "none"
  /\ UNCHANGED vvR
  /\ UNCHANGED vvOthers

\* addParticle(p)
vvAddParticle(i, x) ==
  /\ vvR[i] = NotAdded
  /\ vvR' = [vvR EXCEPT ![i] = x]
  /\ vvCellOf' = [vvCellOf EXCEPT ![i] = get3DIndexOfPosition(x)]
  /\ vvListIsValid' = FALSE
  /\ vvReported' = "none"
  /\ UNCHANGED <<_aosNeighborLists, vvTraversalsSince, vvBuiltAt>>
  /\ UNCHANGED vvOthers

\* updateContainer(): every particle back into the cell containing it
vvUpdateContainer ==
  /\ vvCellOf' = vvSortIntoCells
  /\ vvListIsValid' = FALSE
  /\ vvReported' = "none"
  /\ UNCHANGED <<vvR, _aosNeighborLists, vvTraversalsSince, vvBuiltAt>>
  /\ UNCHANGED vvOthers

\* iter->setR(x) through the container's iterator
setR(i, x) ==
  /\ vvR[i] # NotAdded
  /\ vvR[i] # x
  /\ vvR' = [vvR EXCEPT ![i] = x]
  /\ vvReported' = "none"
  /\ UNCHANGED <<vvCellOf, _aosNeighborLists, vvListIsValid,
                 vvTraversalsSince, vvBuiltAt>>
  /\ UNCHANGED vvOthers

\* checkNeighborListsAreValid()
checkNeighborListsAreValid ==
  /\ vvReported' = IF /\ vvListIsValid
                      /\ ~isContainerUpdateNeeded
                      /\ vvListsCoverCutoff
                   THEN "valid" ELSE "invalid"
  /\ UNCHANGED <<vvR, vvCellOf, _aosNeighborLists, vvListIsValid,
                 vvTraversalsSince, vvBuiltAt>>
  /\ UNCHANGED vvOthers

VVInit ==
  /\ vvR = [i \in vvIds |-> NotAdded]
  /\ vvCellOf = [i \in vvIds |-> 0]
  /\ _aosNeighborLists = {}
  /\ vvListIsValid = FALSE
  /\ vvTraversalsSince = 0
  /\ vvBuiltAt = [i \in vvIds |-> NotAdded]
  /\ vvReported = "none"

VVNext ==
  \/ iteratePairwiseAoS2
  \/ \E i \in vvIds : \E x \in vvPositions(i) : vvAddParticle(i, x)
  \/ vvUpdateContainer
  \/ \E i \in vvIds : \E x \in vvPositions(i) : setR(i, x)
  \/ checkNeighborListsAreValid

\* ---------------------------------------------------------------------
\* VerletClusterLists
\* ---------------------------------------------------------------------
ParticleIds == 1..NumParticleIds
\* a particle: its id, whether it is owned (or halo), whether it lies in
\* the box
VCLParticle == [id : ParticleIds, owned : BOOLEAN, inBox : BOOLEAN]
ValidityState == {"invalid", "cellsValidListsInvalid", "cellsAndListsValid"}

vclIdsOf(ps) == {q.id : q \in ps}
vclAllParticles == _towers \cup _particlesToAdd

\* the container as the operations below transform it
vclState == [valid |-> _isValid, toAdd |-> _particlesToAdd,
             towers |-> _towers]

\* rebuildTowersAndClusters(): the builder sorts the towers' particles and
\* the waiting ones into towers and clusters; the cell structure is valid
rebuildTowersAndClustersBroken(st) ==
  [valid |-> "cellsValidListsInvalid", toAdd |-> st.toAdd,
   towers |-> st.towers \cup st.toAdd]

rebuildTowersAndClusters(st) ==
  [valid |-> "cellsValidListsInvalid", toAdd |-> {},
   towers |-> st.towers \cup st.toAdd]

\* begin(behavior), getRegionIterator(...), non-const: the towers are
\* rebuilt first if the structure is invalid
vclSortedInBroken(st) == st

vclSortedIn(st) ==
  IF st.valid = "invalid" THEN rebuildTowersAndClusters(st) ELSE st

\* internal::deleteParticle(iter) for every particle of del: the tower
\* removes it and notifies the container (notifyParticleDeleted)
vclDeleteFromTowers(st, del) ==
  [valid |-> IF del = {} THEN st.valid ELSE "invalid", toAdd |-> st.toAdd,
   towers |-> st.towers \ del]

\* deleteHaloParticles()
vclAfterDeleteHalo(st) ==
  LET sorted == vclSortedIn(st)
  IN vclDeleteFromTowers(sorted, {q \in sorted.towers : ~q.owned})

\* updateContainer(): the owned particles outside the box
vclLeavers(st) ==
  LET sorted == vclSortedIn(vclAfterDeleteHalo(st))
  IN {q \in sorted.towers : q.owned /\ ~q.inBox}

vclAfterUpdateContainer(st) ==
  LET sorted == vclSortedIn(vclAfterDeleteHalo(st))
  IN vclDeleteFromTowers(sorted, vclLeavers(st))

vclSet(st) ==
  /\ _isValid' = st.valid
  /\ _particlesToAdd' = st.toAdd
  /\ _towers' = st.towers

vclCalled(call, outcome, particles) ==
  vclLast' = [call |-> call, outcome |-> outcome, particles |-> particles]

\* the lists cover exactly the particles of the container
vclListsFresh == _neighborLists = vclIdsOf(vclAllParticles)

\* the guard of iteratePairwise
iteratePairwiseRaises == _isValid = "cellsAndListsValid"

\* iteratePairwise(traversal)
iteratePairwise(isClusterTraversal) ==
  /\ vclCalled("iteratePairwise",
               IF iteratePairwiseRaises THEN "raised: lists not valid"
               ELSE IF ~isClusterTraversal
                    THEN "raised: traversal of wrong type"
                    ELSE IF vclListsFresh THEN "traversed fresh lists"
                         ELSE "traversed stale lists",
               _towers)
  /\ UNCHANGED <<_isValid, _particlesToAdd, _towers, _neighborLists>>
  /\ UNCHANGED vclOthers

\* addParticleImpl(p)
addParticleImpl(id, inBox) ==
  /\ id \notin vclIdsOf(vclAllParticles)
  /\ _isValid' = "invalid"
  /\ _particlesToAdd' = _particlesToAdd \cup
                          {[id |-> id, owned |-> TRUE, inBox |-> inBox]}
  /\ vclCalled("addParticle", "done", {})
  /\ UNCHANGED <<_towers, _neighborLists>>
  /\ UNCHANGED vclOthers

\* addHaloParticleImpl(haloParticle)
addHaloParticleImpl(id) ==
  /\ id \notin vclIdsOf(vclAllParticles)
  /\ _isValid' = "invalid"
  /\ _particlesToAdd' = _particlesToAdd \cup
                          {[id |-> id, owned |-> FALSE, inBox |-> FALSE]}
  /\ vclCalled("addHaloParticle", "done", {})
  /\ UNCHANGED <<_towers, _neighborLists>>
  /\ UNCHANGED vclOthers

\* deleteHaloParticles()
deleteHaloParticles ==
  /\ vclSet(vclAfterDeleteHalo(vclState))
  /\ vclCalled("deleteHaloParticles", "done", {})
  /\ UNCHANGED _neighborLists
  /\ UNCHANGED vclOthers

\* updateContainer()
updateContainer ==
  /\ vclSet(vclAfterUpdateContainer(vclState))
  /\ vclCalled("updateContainer", "done", vclLeavers(vclState))
  /\ UNCHANGED _neighborLists
  /\ UNCHANGED vclOthers

\* rebuildNeighborLists(traversal)
rebuildNeighborLists(isClusterTraversal) ==
  /\ vclSet(vclSortedIn(vclState))
  /\ _neighborLists' = vclIdsOf(vclSortedIn(vclState).towers)
  /\ vclCalled("rebuildNeighborLists",
               IF isClusterTraversal THEN "done"
               ELSE "raised: traversal of wrong type", {})
  /\ UNCHANGED vclOthers

\* begin(behavior), non-const, and a move of one visited particle across
\* the box boundary (iter->setR)
vclBegin(moved) ==
  LET sorted == vclSortedIn(vclState)
  IN /\ moved \subseteq {q \in sorted.towers : q.owned}
     /\ Cardinality(moved) <= 1
     /\ vclSet([sorted EXCEPT !.towers =
                  {IF q \in moved THEN [q EXCEPT !.inBox = ~q.inBox] ELSE q :
                     q \in sorted.towers}])
     /\ vclCalled("begin", "done", sorted.towers)
     /\ UNCHANGED _neighborLists
     /\ UNCHANGED vclOthers

\* begin(behavior) const
vclBeginConst ==
  /\ IF _isValid # "invalid"
     THEN IF _particlesToAdd # {}
          THEN vclCalled("begin const", "raised: particlesToAdd not empty", {})
          ELSE vclCalled("begin const", "done", _towers)
     ELSE vclCalled("begin const", "done", vclAllParticles)
  /\ UNCHANGED <<_isValid, _particlesToAdd, _towers, _neighborLists>>
  /\ UNCHANGED vclOthers

\* deleteAllParticles()
deleteAllParticles ==
  /\ _isValid' = "invalid"
  /\ _particlesToAdd' = {}
  /\ _towers' = {}
  /\ vclCalled("deleteAllParticles", "done", {})
  /\ UNCHANGED _neighborLists
  /\ UNCHANGED vclOthers

VCLInit ==
  /\ _isValid = "invalid"
  /\ _particlesToAdd = {}
  /\ _towers = {}
  /\ _neighborLists = {}
  /\ vclLast = [call |-> "none", outcome |-> "done", particles |-> {}]

VCLNext ==
  \/ \E isClusterTraversal \in BOOLEAN : iteratePairwise(isClusterTraversal)
  \/ \E id \in ParticleIds, inBox \in BOOLEAN : addParticleImpl(id, inBox)
  \/ \E id \in ParticleIds : addHaloParticleImpl(id)
  \/ deleteHaloParticles
  \/ updateContainer
  \/ \E isClusterTraversal \in BOOLEAN :
       rebuildNeighborLists(isClusterTraversal)
  \/ \E moved \in SUBSET VCLParticle : vclBegin(moved)
  \/ vclBeginConst
  \/ deleteAllParticles

\* ---------------------------------------------------------------------
\* Octree traversals: OTNaiveTraversal and OTC18Traversal
\* ---------------------------------------------------------------------
OTLeaves == 1..NumLeaves
OTParticles == 1..NumOTParticles
OTTraversals == {"ot_naive", "ot_c18"}
OTPairs == {pq \in OTParticles \X OTParticles : pq[1] # pq[2]}

\* isApplicable(): ot_naive always (no CUDA layout), ot_c18 only with
\* Newton-3
otIsApplicable(traversal, useNewton3) ==
  IF traversal = "ot_c18" THEN useNewton3 ELSE TRUE

\* assignIDs: the owned leaves get the ids before the halo leaves
otOwnedLeaves == 1..otNumOwnedLeaves
otParticlesOf(leaf) == {q \in OTParticles : otLeafOf[q] = leaf}

\* leaf->getNeighborLeaves(): the adjacent leaves of the leaf's own tree
getNeighborLeaves(leaf) ==
  {nb \in otOwnedLeaves : {leaf, nb} \in otNeighbors}

\* haloWrapper->getLeavesInRange(min, max): the halo leaves in range
getLeavesInRange(leaf) ==
  {nb \in OTLeaves \ otOwnedLeaves : {leaf, nb} \in otNeighbors}

\* _cellFunctor.processCell(cell): the ordered pairs the functor is called
\* with; with Newton-3 one call per unordered pair
processCell(useNewton3, cell) ==
  {pq \in OTPairs : /\ pq[1] \in otParticlesOf(cell)
                    /\ pq[2] \in otParticlesOf(cell)
                    /\ (useNewton3 => pq[1] < pq[2])}

\* _cellFunctor.processCellPair(cell1, cell2), not bidirectional
processCellPair(cell1, cell2) ==
  {pq \in OTPairs : /\ pq[1] \in otParticlesOf(cell1)
                    /\ pq[2] \in otParticlesOf(cell2)}

\* the cell pairs one iteration of the loop over the leaves processes
otProcessesPair(traversal, leaf, nb) ==
  IF traversal = "ot_c18"
  THEN /\ nb \in getNeighborLeaves(leaf) \cup getLeavesInRange(leaf)
       /\ leaf < nb
  ELSE nb \in getNeighborLeaves(leaf)

\* number of functor calls (p, q) of one iteration of the loop
otCallsOfLeaf(leaf, pq) ==
  (IF pq \in processCell(otUseNewton3, leaf) THEN 1 ELSE 0)
  + Cardinality({nb \in OTLeaves :
                   /\ otProcessesPair(otTraversal, leaf, nb)
                   /\ pq \in processCellPair(leaf, nb)})

\* initTraversal()
otInitTraversal(traversal, useNewton3) ==
  /\ otPhase # "traversing"
  /\ otIsApplicable(traversal, useNewton3)
  /\ otTraversal' = traversal
  /\ otUseNewton3' = useNewton3
  /\ otPhase' = "traversing"
  /\ otNextLeaf' = 1
  /\ otCalls' = [pq \in OTPairs |-> 0]
  /\ UNCHANGED <<otNumOwnedLeaves, otNeighbors, otLeafOf>>
  /\ UNCHANGED otOthers

\* traverseParticlePairs(): one iteration of the loop over the leaves
otTraverseLeaf ==
  /\ otPhase = "traversing"
  /\ otNextLeaf <= otNumOwnedLeaves
  /\ otCalls' = [pq \in OTPairs |->
                  otCalls[pq] + otCallsOfLeaf(otNextLeaf, pq)]
  /\ otNextLeaf' = otNextLeaf + 1
  /\ UNCHANGED <<otTraversal, otUseNewton3, otNumOwnedLeaves, otNeighbors,
                 otLeafOf, otPhase>>
  /\ UNCHANGED otOthers

\* endTraversal()
otEndTraversal ==
  /\ otPhase = "traversing"
  /\ otNextLeaf > otNumOwnedLeaves
  /\ otPhase' = "ended"
  /\ UNCHANGED <<otTraversal, otUseNewton3, otNumOwnedLeaves, otNeighbors,
                 otLeafOf, otNextLeaf, otCalls>>
  /\ UNCHANGED otOthers

OTInit ==
  /\ otTraversal = "ot_naive"
  /\ otUseNewton3 = FALSE
  /\ otNumOwnedLeaves \in OTLeaves
  /\ otNeighbors \in SUBSET {{a, b} : a, b \in OTLeaves}
  /\ \A pr \in otNeighbors : Cardinality(pr) = 2
  /\ otLeafOf \in [OTParticles -> OTLeaves]
  /\ otPhase = "idle"
  /\ otNextLeaf = 1
  /\ otCalls = [pq \in OTPairs |-> 0]

OTNext ==
  \/ \E traversal \in OTTraversals, useNewton3 \in BOOLEAN :
       otInitTraversal(traversal, useNewton3)
  \/ otTraverseLeaf
  \/ otEndTraversal

\* ---------------------------------------------------------------------
\* Lock-based sliced traversal: one worker per slice, one lock per
\* boundary plane; plane b lies between slice b and slice b + 1
\* ---------------------------------------------------------------------
Slices == 1..NumSlices
Planes == 1..(NumSlices - 1)
NoSlice == 0

RECURSIVE sliceStart(_)
\* the first layer of a slice
sliceStart(slice) ==
  IF slice = 1 THEN 0
  ELSE sliceStart(slice - 1) + _sliceThickness[slice - 1]

\* the layer the worker of the slice is at
dimSlice(slice) == sliceStart(slice) + sliceOffset[slice]

\* the layers whose cells one base layer reads and writes: the layer and
\* the one above it
slFootprint(layer) == {layer, layer + 1}

\* the layers the worker of the slice is touching now
slTouching(slice) ==
  IF slPc[slice] = "touching" THEN slFootprint(dimSlice(slice)) ELSE {}

slAtFirstLayer(slice) == sliceOffset[slice] = 0
slAtLastLayer(slice) == sliceOffset[slice] = _sliceThickness[slice] - 1

\* the worker of the slice must hold the lock of the plane to touch the
\* layer it is at
slNeedsLockBroken(slice, plane) ==
  plane = slice - 1 /\ slAtFirstLayer(slice)
slNeedsLock(slice, plane) ==
  \/ plane = slice - 1 /\ slAtFirstLayer(slice)
  \/ plane = slice /\ slAtLastLayer(slice)

slMissing(slice) ==
  {b \in Planes : slNeedsLock(slice, b) /\ locks[b] # slice}

\* locks[plane].lock(): blocks while another worker holds the lock; the
\* lock of the starting layer is requested before the one of the last layer
slLock(slice, plane) ==
  /\ slPc[slice] = "ready"
  /\ plane \in slMissing(slice)
  /\ \A b \in slMissing(slice) : plane <= b
  /\ locks[plane] = NoSlice
  /\ locks' = [locks EXCEPT ![plane] = slice]
  /\ UNCHANGED <<_sliceThickness, sliceOffset, slPc>>
  /\ UNCHANGED slOthers

\* the loop body starts on the cells of the layer
slBeginLayer(slice) ==
  /\ slPc[slice] = "ready"
  /\ slMissing(slice) = {}
  /\ slPc' = [slPc EXCEPT ![slice] = "touching"]
  /\ UNCHANGED <<_sliceThickness, locks, sliceOffset>>
  /\ UNCHANGED slOthers

\* the loop body is done with the layer: locks[plane].unlock() for the
\* locks held, then the next layer
slEndLayerBroken(slice) ==
  /\ slPc[slice] = "touching"
  /\ locks' = [b \in Planes |-> IF locks[b] = slice /\ b = slice - 1
                                THEN NoSlice ELSE locks[b]]
  /\ IF slAtLastLayer(slice)
     THEN /\ slPc' = [slPc EXCEPT ![slice] = "done"]
          /\ UNCHANGED sliceOffset
     ELSE /\ slPc' = [slPc EXCEPT ![slice] = "ready"]
          /\ sliceOffset' = [sliceOffset EXCEPT ![slice] = @ + 1]
  /\ UNCHANGED _sliceThickness
  /\ UNCHANGED slOthers

slEndLayer(slice) ==
  /\ slPc[slice] = "touching"
  /\ locks' = [b \in Planes |-> IF locks[b] = slice THEN NoSlice
                                ELSE locks[b]]
  /\ IF slAtLastLayer(slice)
     THEN /\ slPc' = [slPc EXCEPT ![slice] = "done"]
          /\ UNCHANGED sliceOffset
     ELSE /\ slPc' = [slPc EXCEPT ![slice] = "ready"]
          /\ sliceOffset' = [sliceOffset EXCEPT ![slice] = @ + 1]
  /\ UNCHANGED _sliceThickness
  /\ UNCHANGED slOthers

SLInit ==
  /\ _sliceThickness \in [Slices -> 1..MaxThickness]
  /\ locks = [b \in Planes |-> NoSlice]
  /\ sliceOffset = [k \in Slices |-> 0]
  /\ slPc = [k \in Slices |-> "ready"]

SLNext ==
  \/ \E slice \in Slices, plane \in Planes : slLock(slice, plane)
  \/ \E slice \in Slices : slBeginLayer(slice)
  \/ \E slice \in Slices : slEndLayer(slice)

\* ---------------------------------------------------------------------
\* c08 traversal: eight colours, the base cells of one colour processed by
\* the threads in parallel, a barrier between the colours
\* ---------------------------------------------------------------------
Threads == 1..NumThreads
NoBase == <<>>
\* the colours repeat every c08Stride cells in each axis
c08Stride == 2
NumColours == 8

\* the offset of the first base cell of a colour
c08Start(colour) ==
  <<colour % 2, (colour \div 2) % 2, (colour \div 4) % 2>>

\* the base cells of a colour: every c08Stride-th cell from the colour's
\* start; the last layer of each axis holds no base cell
c08BasesBroken(colour) ==
  {b \in (0..(MaxDim + 1)) \X (0..(MaxDim + 1)) \X (0..(MaxDim + 1)) :
     \A d \in 1..3 :
       /\ b[d] < _cellsPerDimension[d] - 1
       /\ b[d] >= c08Start(colour)[d]}
c08Bases(colour) ==
  {b \in (0..(MaxDim + 1)) \X (0..(MaxDim + 1)) \X (0..(MaxDim + 1)) :
     \A d \in 1..3 :
       /\ b[d] < _cellsPerDimension[d] - 1
       /\ b[d] >= c08Start(colour)[d]
       /\ (b[d] - c08Start(colour)[d]) % c08Stride = 0}

\* the cells processBaseCell(base) reads and writes: the 2x2x2 block
c08Footprint(base) ==
  {<<base[1] + dx, base[2] + dy, base[3] + dz>> :
     dx \in 0..1, dy \in 0..1, dz \in 0..1}

\* position of a base cell in the collapsed loop over z, y and x
c08LoopIndex(base) ==
  (base[3] * (MaxDim + 2) + base[2]) * (MaxDim + 2) + base[1]

c08Pending == c08Bases(c08Colour) \ c08Taken

\* a thread takes the next base cell of the colour
c08BeginBase(thread) ==
  /\ c08Colour < NumColours
  /\ c08Current[thread] = NoBase
  /\ \E base \in c08Pending :
       /\ \A other \in c08Pending :
            c08LoopIndex(base) <= c08LoopIndex(other)
       /\ c08Current' = [c08Current EXCEPT ![thread] = base]
       /\ c08Taken' = c08Taken \cup {base}
  /\ UNCHANGED <<_cellsPerDimension, c08Colour>>
  /\ UNCHANGED c08Others

\* the thread is done with its base cell
c08EndBase(thread) ==
  /\ c08Current[thread] # NoBase
  /\ c08Current' = [c08Current EXCEPT ![thread] = NoBase]
  /\ UNCHANGED <<_cellsPerDimension, c08Colour, c08Taken>>
  /\ UNCHANGED c08Others

\* the barrier at the end of a colour
c08NextColour ==
  /\ c08Colour < NumColours
  /\ c08Pending = {}
  /\ \A thread \in Threads : c08Current[thread] = NoBase
  /\ c08Colour' = c08Colour + 1
  /\ c08Taken' = {}
  /\ UNCHANGED <<_cellsPerDimension, c08Current>>
  /\ UNCHANGED c08Others

C08Init ==
  /\ _cellsPerDimension \in [1..3 -> 2..MaxDim]
  /\ c08Colour = 0
  /\ c08Taken = {}
  /\ c08Current = [thread \in Threads |-> NoBase]

C08Next ==
  \/ \E thread \in Threads : c08BeginBase(thread)
  \/ \E thread \in Threads : c08EndBase(thread)
  \/ c08NextColour

\* ---------------------------------------------------------------------
\* ClusterTower: clusters of clusterSize particles, the last one padded;
\* VCLSlicedTraversal::processBaseStep over the tower
\* ---------------------------------------------------------------------
clusterSize == 4
\* std::numeric_limits<size_t>::max(), as far as the integers here reach
ctSizeMax == 2147483647
\* cutoff and interaction length (cutoff + skin) of the container, the
\* upper corner of the box
ctCutoff == 1
ctInteractionLength == 2
ctBoxMax == MaxZ + 1
\* the arguments the rebuild passes to fillUpWithDummyParticles: the
\* dummies lie outside the box, an interaction length apart
ctDummyStartX == ctBoxMax + ctInteractionLength
ctDummyDistZ == ctInteractionLength

\* _particles.sortByDim(2): ascending in z
RECURSIVE sortByDim(_)
sortByDim(ps) ==
  IF ps = <<>> THEN <<>>
  ELSE LET m == Min({ps[k].r[3] : k \in 1..Len(ps)})
           i == CHOOSE k \in 1..Len(ps) :
                  /\ ps[k].r[3] = m
                  /\ \A l \in 1..(k - 1) : ps[l].r[3] # m
       IN <<ps[i]>> \o sortByDim(SubSeq(ps, 1, i - 1)
                                   \o SubSeq(ps, i + 1, Len(ps)))

getNumActualParticles == Len(_particles) - _numDummyParticles
getNumClusters == Len(_clusters)

\* the indices in _particles of the particles of a cluster
ctSlots(cluster) == cluster..(cluster + clusterSize - 1)

\* the position fillUpWithDummyParticles gives the index-th dummy
dummyRBroken(dummyStartX, dummyDistZ, index) ==
  <<dummyStartX, 0, dummyDistZ>>
dummyR(dummyStartX, dummyDistZ, index) ==
  <<dummyStartX, 0, dummyDistZ * index>>

\* addParticle(particle)
ctAddParticle(z) ==
  /\ ctPhase = "adding"
  /\ Len(_particles) < MaxTowerParticles
  /\ _particles' = Append(_particles,
                          [id |-> Len(_particles) + 1, ownership |-> "owned",
                           r |-> <<0, 0, z>>])
  /\ UNCHANGED <<_clusters, _numDummyParticles, ctPhase, ctCalls>>
  /\ UNCHANGED ctOthers

\* generateClusters()
generateClusters ==
  /\ ctPhase = "adding"
  /\ ctPhase' = "clustered"
  /\ IF getNumActualParticles > 0
     THEN LET sorted == sortByDim(_particles)
              sizeLastCluster == Len(sorted) % clusterSize
              numDummy == IF sizeLastCluster # 0
                          THEN clusterSize - sizeLastCluster ELSE 0
              lastParticle == sorted[Len(sorted)]
              filled == sorted \o [k \in 1..numDummy |-> lastParticle]
              numClusters == Len(filled) \div clusterSize
          IN /\ _numDummyParticles' = numDummy
             /\ _particles' = filled
             /\ _clusters' = [index \in 1..numClusters |->
                                clusterSize * (index - 1) + 1]
     ELSE UNCHANGED <<_particles, _clusters, _numDummyParticles>>
  /\ UNCHANGED ctCalls
  /\ UNCHANGED ctOthers

\* fillUpWithDummyParticles(dummyStartX, dummyDistZ); nothing to fill in a
\* tower without clusters
fillUpWithDummyParticles(dummyStartX, dummyDistZ) ==
  /\ ctPhase = "clustered"
  /\ ctPhase' = "filled"
  /\ IF getNumClusters > 0
     THEN LET lastCluster == _clusters[getNumClusters]
          IN _particles' =
               [k \in 1..Len(_particles) |->
                  IF k > Len(_particles) - _numDummyParticles
                  THEN [id |-> ctSizeMax, ownership |-> "dummy",
                        r |-> dummyR(dummyStartX, dummyDistZ,
                                     lastCluster + clusterSize - k)]
                  ELSE _particles[k]]
     ELSE UNCHANGED _particles
  /\ UNCHANGED <<_clusters, _numDummyParticles, ctCalls>>
  /\ UNCHANGED ctOthers

\* cluster.getNeighbors(): the clusters above it in the tower
ctNeighbors(index) == (index + 1)..getNumClusters

\* _clusterFunctor.traverseCluster(cluster): every pair of particles of the
\* cluster
traverseCluster(cluster) ==
  {<<_particles[pr[1]], _particles[pr[2]]>> :
     pr \in {ij \in ctSlots(cluster) \X ctSlots(cluster) : ij[1] < ij[2]}}

\* _clusterFunctor.traverseClusterPair(cluster, neighborCluster)
traverseClusterPair(cluster, neighborCluster) ==
  {<<_particles[i], _particles[j]>> :
     i \in ctSlots(cluster), j \in ctSlots(neighborCluster)}

\* processBaseStep(x, y) on the tower
processBaseStep ==
  /\ ctPhase \in {"clustered", "filled"}
  /\ ctCalls' =
       UNION {traverseCluster(_clusters[index])
              \cup UNION {traverseClusterPair(_clusters[index],
                                              _clusters[nb]) :
                            nb \in ctNeighbors(index)} :
              index \in 1..getNumClusters}
  /\ UNCHANGED <<_particles, _clusters, _numDummyParticles, ctPhase>>
  /\ UNCHANGED ctOthers

\* clear()
ctClear ==
  /\ _clusters' = <<>>
  /\ _particles' = <<>>
  /\ _numDummyParticles' = 0
  /\ ctPhase' = "adding"
  /\ ctCalls' = {}
  /\ UNCHANGED ctOthers

CTInit ==
  /\ _particles = <<>>
  /\ _clusters = <<>>
  /\ _numDummyParticles = 0
  /\ ctPhase = "adding"
  /\ ctCalls = {}

CTNext ==
  \/ \E z \in 0..MaxZ : ctAddParticle(z)
  \/ generateClusters
  \/ fillUpWithDummyParticles(ctDummyStartX, ctDummyDistZ)
  \/ processBaseStep
  \/ ctClear

\* ---------------------------------------------------------------------
\* AutoPasConfigurationCommunicator
\* ---------------------------------------------------------------------
Ranks == 0..(NumRanks - 1)
ContainerOptions == 1..NumContainers
LoadEstimatorOptions == {"none", "squaredParticlesPerCell"}
DataLayoutOptions == {"aos", "soa"}
Newton3Options == {"disabled", "enabled"}
\* NumberSet<double>: a finite set of factors or an interval
CellSizeFactorSets ==
  [finite : {TRUE}, values : SUBSET (1..MaxCellSizeFactors)]
    \cup {[finite |-> FALSE, values |-> {}]}
NoConfiguration == <<>>

\* the sum of f[x] over the x of S
RECURSIVE SetSum(_, _)
SetSum(S, f) ==
  IF S = {} THEN 0
  ELSE LET x == CHOOSE y \in S : TRUE IN f[x] + SetSum(S \ {x}, f)

\* compatibleTraversals::allCompatibleTraversals(container): every
\* container has its own traversals
allCompatibleTraversals(container) ==
  {o \in TraversalOptions : o % NumContainers = container % NumContainers}

\* loadEstimators::getApplicableLoadEstimators: the allowed estimators for
\* a load-balancing traversal, LoadEstimatorOption::none for the others
getApplicableLoadEstimators(container, traversal, allowed) ==
  IF traversal = 1 THEN allowed \ {"none"} ELSE {"none"}

\* getSearchSpaceSize(containerOptions, cellSizeFactors, traversalOptions,
\*                    loadEstimatorOptions, dataLayoutOptions, newton3Options)
getSearchSpaceSize(containers, factors, traversals, estimators, layouts, newton3s) ==
  LET cellSizeFactorArraySize ==
        IF factors.finite THEN Cardinality(factors.values) ELSE 1
      perTraversal(container, traversal) ==
        cellSizeFactorArraySize
          * Cardinality(getApplicableLoadEstimators(container, traversal,
                                                    estimators))
          * Cardinality(layouts) * Cardinality(newton3s)
      perContainer(container) ==
        LET allowedAndApplicable ==
              traversals \cap allCompatibleTraversals(container)
        IN SetSum(allowedAndApplicable,
                  [traversal \in allowedAndApplicable |->
                     perTraversal(container, traversal)])
  IN SetSum(containers,
            [container \in containers |-> perContainer(container)])

\* the configurations the option sets span; an interval of cell size
\* factors stands for the factors in it
searchSpace(containers, factors, traversals, estimators, layouts, newton3s) ==
  {c \in [container : containers, traversal : traversals,
          loadEstimator : LoadEstimatorOptions, dataLayout : layouts,
          newton3 : newton3s,
          cellSizeFactor : IF factors.finite THEN factors.values
                           ELSE {0}] :
     /\ c.traversal \in allCompatibleTraversals(c.container)
     /\ c.loadEstimator \in
          getApplicableLoadEstimators(c.container, c.traversal, estimators)}

dcRaisesBroken(numConfigs) == numConfigs < 0

\* if (numConfigs == 0) exception("Could not generate valid configurations")
dcRaises(numConfigs) == numConfigs = 0

\* distributeConfigurations(..., rank, commSize), called once when the
\* tuner is set up
distributeConfigurations(containers, factors, traversals, estimators, layouts, newton3s) ==
  /\ dcOutcome = "not called"
  /\ LET \* static_cast<int>: the sizes here are far below 2^31
         numConfigs ==
           getSearchSpaceSize(containers, factors, traversals, estimators,
                              layouts, newton3s)
     IN dcOutcome' = IF dcRaises(numConfigs)
                     THEN "exception: could not generate valid configurations"
                     ELSE "distributed"
  /\ dcEmptySpace' = (searchSpace(containers, factors, traversals,
                                  estimators, layouts, newton3s) = {})
  /\ UNCHANGED <<mpiCommSize, mpiLocal, mpiPc, optimalTimeOut,
                 optimalRankIn, optimalRankOut, mpiReturned>>
  /\ UNCHANGED commOthers

\* castToByte of an option, memcpy of the double
castToByte(x) == x % 256

Configurations ==
  [container : ContainerOptions, traversal : TraversalOptions,
   cellSizeFactor : 1..2]

serializeConfiguration(configuration) ==
  <<castToByte(configuration.container),
    castToByte(configuration.traversal), configuration.cellSizeFactor>>

deserializeConfiguration(config) ==
  [container |-> config[1], traversal |-> config[2],
   cellSizeFactor |-> config[3]]

mpiRanks == 0..(mpiCommSize - 1)

\* MPI_Allreduce(.., MPI_MIN, comm) returns, on every rank, the smallest
\* value a rank of the communicator sent, once all of them have sent one
allreduceMinBroken(sent) ==
  LET m == Min({0 - sent[r] : r \in mpiRanks}) IN 0 - m

allreduceMin(sent) == Min({sent[r] : r \in mpiRanks})

\* optimizeConfiguration: the rank calls the first Allreduce
ocEnter(r) ==
  /\ r \in mpiRanks
  /\ mpiPc[r] = "called"
  /\ mpiPc' = [mpiPc EXCEPT ![r] = "Allreduce time"]
  /\ UNCHANGED <<dcOutcome, dcEmptySpace, mpiCommSize, mpiLocal,
                 optimalTimeOut, optimalRankIn, optimalRankOut,
                 mpiReturned>>
  /\ UNCHANGED commOthers

\* the first Allreduce returns; the rank sends its own number if its local
\* time is the global one, the communicator's size otherwise
ocAllreduceTime(r) ==
  /\ r \in mpiRanks
  /\ mpiPc[r] = "Allreduce time"
  /\ \A q \in mpiRanks : mpiPc[q] # "called"
  /\ LET out == allreduceMin([q \in mpiRanks |-> mpiLocal[q].time])
     IN /\ optimalTimeOut' = [optimalTimeOut EXCEPT ![r] = out]
        /\ optimalRankIn' =
             [optimalRankIn EXCEPT
                ![r] = IF mpiLocal[r].time = out THEN r ELSE mpiCommSize]
  /\ mpiPc' = [mpiPc EXCEPT ![r] = "Allreduce rank"]
  /\ UNCHANGED <<dcOutcome, dcEmptySpace, mpiCommSize, mpiLocal,
                 optimalRankOut, mpiReturned>>
  /\ UNCHANGED commOthers

\* the second Allreduce returns and the rank calls Bcast
ocAllreduceRank(r) ==
  /\ r \in mpiRanks
  /\ mpiPc[r] = "Allreduce rank"
  /\ \A q \in mpiRanks : mpiPc[q] \notin {"called", "Allreduce time"}
  /\ optimalRankOut' =
       [optimalRankOut EXCEPT
          ![r] = allreduceMin([q \in mpiRanks |-> optimalRankIn[q]])]
  /\ mpiPc' = [mpiPc EXCEPT ![r] = "Bcast"]
  /\ UNCHANGED <<dcOutcome, dcEmptySpace, mpiCommSize, mpiLocal,
                 optimalTimeOut, optimalRankIn, mpiReturned>>
  /\ UNCHANGED commOthers

\* Bcast returns once its root has called it, with the root's buffer; the
\* rank returns the deserialized configuration
ocBcast(r) ==
  /\ r \in mpiRanks
  /\ mpiPc[r] = "Bcast"
  /\ LET root == optimalRankOut[r]
     IN /\ root \in mpiRanks
        /\ mpiPc[root] \in {"Bcast", "returned"}
        /\ mpiReturned' =
             [mpiReturned EXCEPT
                ![r] = deserializeConfiguration(
                         serializeConfiguration(mpiLocal[root].config))]
  /\ mpiPc' = [mpiPc EXCEPT ![r] = "returned"]
  /\ UNCHANGED <<dcOutcome, dcEmptySpace, mpiCommSize, mpiLocal,
                 optimalTimeOut, optimalRankIn, optimalRankOut>>
  /\ UNCHANGED commOthers

CommInit ==
  /\ dcOutcome = "not called"
  /\ dcEmptySpace = FALSE
  /\ mpiCommSize \in 1..NumRanks
  /\ mpiLocal \in [Ranks -> [config : Configurations, time : Times]]
  /\ mpiPc = [r \in Ranks |-> "called"]
  /\ optimalTimeOut = [r \in Ranks |-> 0]
  /\ optimalRankIn = [r \in Ranks |-> 0]
  /\ optimalRankOut = [r \in Ranks |-> 0]
  /\ mpiReturned = [r \in Ranks |-> NoConfiguration]

CommNext ==
  \/ \E r \in Ranks : ocEnter(r) /\ UNCHANGED tpVars
  \/ \E r \in Ranks : ocAllreduceTime(r) /\ UNCHANGED tpVars
  \/ \E r \in Ranks : ocAllreduceRank(r) /\ UNCHANGED tpVars
  \/ \E r \in Ranks : ocBcast(r) /\ UNCHANGED tpVars

\* ---------------------------------------------------------------------
\* A tuning phase (spec 4.6): the tuner asks the selector for the next
\* traversal until it returns null, measures each one it got, and then
\* commits the optimal one.  Every run of a traversal takes the same time.
\* ---------------------------------------------------------------------
TPPcs == {"distribute", "configure", "select", "measure", "commit",
          "aborted", "fatal", "hung"}
NoMapOrder == [inserted |-> <<>>, order |-> <<>>]

\* the keys of measurementsMap in the order operator[] first inserted them
RECURSIVE insertionOrder(_)
insertionOrder(ts) ==
  IF ts = <<>> THEN <<>>
  ELSE LET rest == insertionOrder(SubSeq(ts, 1, Len(ts) - 1))
           key == ts[Len(ts)].traversal
       IN IF key \in Range(rest) THEN rest ELSE Append(rest, key)

OrdersOf(S) == {s \in [1..Cardinality(S) -> S] : Range(s) = S}

\* for (auto &&m : measurementsMap): the iteration order of an
\* unordered_map is unspecified, but one build walks a map filled by the
\* same insertions in the same order every time.
unorderedMapOrdersBroken(last, inserted) == OrdersOf(Range(inserted))

unorderedMapOrders(last, inserted) ==
  IF last.inserted = inserted THEN {last.order}
  ELSE OrdersOf(Range(inserted))

\* the strict "<" scan keeps the first option of the walk with the
\* smallest reduced time
firstOfWalk(order, fastest) ==
  order[Min({i \in 1..Len(order) : order[i] \in fastest})]

\* setting up the tuner: the search space is distributed over the ranks;
\* the exception of distributeConfigurations ends the program
tpDistribute(containers, factors, traversals, estimators, layouts, newton3s) ==
  /\ tpPc = "distribute"
  /\ distributeConfigurations(containers, factors, traversals, estimators,
                              layouts, newton3s)
  /\ tpPc' = IF dcOutcome' = "distributed" THEN "configure" ELSE "aborted"
  /\ UNCHANGED <<tpTimings, tpApplicable, tpStrategy, tpMapOrder,
                 tpCommits, tpIgnored>>

\* the caller's functor and strategy: the time every run of a traversal
\* takes, the traversals applicable with the functor, the strategy
tpConfigure(timings, applicable, strategy) ==
  /\ tpPc = "configure"
  /\ tpTimings' = timings
  /\ tpApplicable' = applicable
  /\ tpStrategy' = strategy
  /\ tpPc' = "select"
  /\ UNCHANGED <<tpMapOrder, tpCommits, tpIgnored>>
  /\ UNCHANGED <<selVars, commVars, selOthers>>

\* before a phase the tuner has the selector build all allowed traversals
tpGenerateAll ==
  /\ tpPc = "select"
  /\ ~_isTuning
  /\ generateAllAllowedTraversals
  /\ tpPc' = IF selResult' = "traversals" THEN "select" ELSE "fatal"
  /\ UNCHANGED <<tpTimings, tpApplicable, tpStrategy, tpMapOrder,
                 tpCommits, tpIgnored>>

\* selectNextTraversal(functor); null ends the sampling of the phase
tpSelectNext ==
  /\ tpPc = "select"
  /\ Len(tpCommits) < MaxPhases
  /\ selectNextTraversal(tpApplicable)
  /\ tpPc' = CASE selResult' = "traversal" -> "measure"
               [] selResult' = "null" -> "commit"
               [] OTHER -> "hung"
  /\ UNCHANGED <<tpTimings, tpApplicable, tpStrategy, tpMapOrder,
                 tpCommits, tpIgnored>>

\* run the traversal with the functor to tune, addTimeMeasurement(..)
tpMeasure ==
  /\ tpPc = "measure"
  /\ addTimeMeasurement(TRUE, _currentTraversal,
                        tpTimings[_currentTraversal])
  /\ tpPc' = "select"
  /\ UNCHANGED <<tpTimings, tpApplicable, tpStrategy, tpMapOrder,
                 tpCommits, tpIgnored>>

\* a functor with isRelevantForTuning() == false (FlopCounterFunctor) is
\* run with some traversal and its time reported
tpMeasureIrrelevant(traversal, time) ==
  /\ tpPc \in {"select", "measure", "commit"}
  /\ tpIgnored < MaxIgnored
  /\ addTimeMeasurement(FALSE, traversal, time)
  /\ tpIgnored' = tpIgnored + 1
  /\ UNCHANGED <<tpTimings, tpApplicable, tpStrategy, tpMapOrder, tpPc,
                 tpCommits>>

\* selectOptimalTraversal(strategy, functor) ends the phase
tpCommit ==
  /\ tpPc = "commit"
  /\ selectOptimalTraversal(tpStrategy)
  /\ IF selResult' = "traversal"
     THEN IF tpStrategy = "fastestAbs"
          THEN UNCHANGED tpMapOrder
          ELSE LET inserted == insertionOrder(_traversalTimes)
               IN \E order \in unorderedMapOrders(tpMapOrder, inserted) :
                    /\ _currentTraversal' =
                         firstOfWalk(order, Fastest(tpStrategy,
                                                    _traversalTimes))
                    /\ tpMapOrder' = [inserted |-> inserted,
                                      order |-> order]
     ELSE UNCHANGED tpMapOrder
  /\ tpPc' = IF selResult' = "traversal" THEN "select" ELSE "fatal"
  /\ tpCommits' = IF selResult' = "traversal"
                  THEN Append(tpCommits, _currentTraversal')
                  ELSE tpCommits
  /\ UNCHANGED <<tpTimings, tpApplicable, tpStrategy, tpIgnored>>

TPInit ==
  /\ tpTimings = [o \in TraversalOptions |-> 1]
  /\ tpApplicable = {}
  /\ tpStrategy = "fastestAbs"
  /\ tpMapOrder = NoMapOrder
  /\ tpPc = "distribute"
  /\ tpCommits = <<>>
  /\ tpIgnored = 0

TPNext ==
  \/ \E containers \in SUBSET ContainerOptions,
        factors \in CellSizeFactorSets,
        traversals \in SUBSET TraversalOptions,
        estimators \in SUBSET LoadEstimatorOptions,
        layouts \in SUBSET DataLayoutOptions,
        newton3s \in SUBSET Newton3Options :
        tpDistribute(containers, factors, traversals, estimators, layouts,
                     newton3s)
  \/ \E timings \in [TraversalOptions -> Times],
        applicable \in SUBSET TraversalOptions,
        strategy \in SelectorStrategies :
        tpConfigure(timings, applicable, strategy)
  \/ tpGenerateAll
  \/ tpSelectNext
  \/ tpMeasure
  \/ \E o \in TraversalOptions, t \in Times : tpMeasureIrrelevant(o, t)
  \/ tpCommit

\* ---------------------------------------------------------------------
\* Octree container (containers/octree/Octree.h)
\* ---------------------------------------------------------------------
ContainerTypes == {"verletClusterLists", "octree"}
OwnershipState == {"owned", "halo", "dummy"}
\* a particle of the octree: its id, its ownership tag, whether its
\* position lies in [boxMin, boxMax)
OCParticle == [id : ParticleIds, ownership : OwnershipState,
               inBox : BOOLEAN]

ocIdsOf(ps) == {q.id : q \in ps}
ocAllParticles == _cells.OWNED \cup _cells.HALO
ocTagged(ps, tag) == {q \in ps : q.ownership = tag}

ocCalled(call, particles) ==
  ocLast' = [call |-> call, particles |-> particles]

\* Octree::addParticleImpl(p)
ocAddParticleImpl(id, inBox) ==
  /\ id \notin ocIdsOf(ocAllParticles)
  /\ _cells' = [_cells EXCEPT !.OWNED = @ \cup
                  {[id |-> id, ownership |-> "owned", inBox |-> inBox]}]
  /\ ocCalled("addParticle", {})
  /\ UNCHANGED containerType
  /\ UNCHANGED ocOthers

\* Octree::addHaloParticleImpl(haloParticle)
ocAddHaloParticleImpl(id) ==
  /\ id \notin ocIdsOf(ocAllParticles)
  /\ _cells' = [_cells EXCEPT !.HALO = @ \cup
                  {[id |-> id, ownership |-> "halo", inBox |-> FALSE]}]
  /\ ocCalled("addHaloParticle", {})
  /\ UNCHANGED containerType
  /\ UNCHANGED ocOthers

\* Octree::begin(behavior), non-const: one owned particle is moved across
\* the box boundary through the iterator
ocBegin(id) ==
  /\ id \in ocIdsOf(ocTagged(_cells.OWNED, "owned"))
  /\ _cells' = [_cells EXCEPT !.OWNED =
                  {IF q.id = id THEN [q EXCEPT !.inBox = ~q.inBox] ELSE q :
                     q \in @}]
  /\ ocCalled("begin", {})
  /\ UNCHANGED containerType
  /\ UNCHANGED ocOthers

\* LeavingParticleCollector::collectParticlesAndMarkNonOwnedAsDummy: the
\* owned particles outside the box are returned; they and the halo
\* particles are marked as dummies
ocMarked(ps) ==
  {IF q.ownership = "halo" \/ (q.ownership = "owned" /\ ~q.inBox)
   THEN [q EXCEPT !.ownership = "dummy"] ELSE q : q \in ps}

\* the particles updateContainer returns
ocLeaversBroken(cells, keepNeighborListValid) ==
  IF keepNeighborListValid
  THEN {q \in ocTagged(cells.OWNED \cup cells.HALO, "owned") : ~q.inBox}
  ELSE {q \in cells.OWNED : q.ownership # "dummy"}

ocLeavers(cells, keepNeighborListValid) ==
  IF keepNeighborListValid
  THEN {q \in ocTagged(cells.OWNED \cup cells.HALO, "owned") : ~q.inBox}
  ELSE {q \in cells.OWNED : q.ownership # "dummy" /\ ~q.inBox}

\* Octree::updateContainer(keepNeighborListValid)
ocUpdateContainer(keepNeighborListValid) ==
  /\ _cells' =
       IF keepNeighborListValid
       THEN [OWNED |-> ocMarked(_cells.OWNED), HALO |-> ocMarked(_cells.HALO)]
       ELSE [OWNED |-> {q \in _cells.OWNED :
                          q.ownership # "dummy" /\ q.inBox},
             HALO |-> {}]
  /\ ocCalled("updateContainer", ocLeavers(_cells, keepNeighborListValid))
  /\ UNCHANGED containerType
  /\ UNCHANGED ocOthers

\* Octree::deleteHaloParticles()
ocDeleteHaloParticles ==
  /\ _cells' = [_cells EXCEPT !.HALO = {}]
  /\ ocCalled("deleteHaloParticles", {})
  /\ UNCHANGED containerType
  /\ UNCHANGED ocOthers

OCInit ==
  /\ _cells = [OWNED |-> {}, HALO |-> {}]
  /\ ocLast = [call |-> "none", particles |-> {}]

\* the container in use is one of the two; its operations are the only
\* ones called
ContainersInit ==
  /\ containerType \in ContainerTypes
  /\ OCInit

ContainersNext ==
  \/ \E isClusterTraversal \in BOOLEAN :
       iteratePairwise(isClusterTraversal)
         /\ containerType = "verletClusterLists"
  \/ \E id \in ParticleIds, inBox \in BOOLEAN :
       addParticleImpl(id, inBox) /\ containerType = "verletClusterLists"
  \/ \E id \in ParticleIds :
       addHaloParticleImpl(id) /\ containerType = "verletClusterLists"
  \/ deleteHaloParticles /\ containerType = "verletClusterLists"
  \/ updateContainer /\ containerType = "verletClusterLists"
  \/ \E isClusterTraversal \in BOOLEAN :
       rebuildNeighborLists(isClusterTraversal)
         /\ containerType = "verletClusterLists"
  \/ \E moved \in SUBSET VCLParticle :
       vclBegin(moved) /\ containerType = "verletClusterLists"
  \/ vclBeginConst /\ containerType = "verletClusterLists"
  \/ deleteAllParticles /\ containerType = "verletClusterLists"
  \/ \E id \in ParticleIds, inBox \in BOOLEAN :
       ocAddParticleImpl(id, inBox) /\ containerType = "octree"
  \/ \E id \in ParticleIds :
       ocAddHaloParticleImpl(id) /\ containerType = "octree"
  \/ \E id \in ParticleIds : ocBegin(id) /\ containerType = "octree"
  \/ \E keepNeighborListValid \in BOOLEAN :
       ocUpdateContainer(keepNeighborListValid) /\ containerType = "octree"
  \/ ocDeleteHaloParticles /\ containerType = "octree"

\* ---------------------------------------------------------------------
\* CellBlock3D (containers/CellBlock3D.h)
\* ---------------------------------------------------------------------
CBParticleIds == 1..NumCBParticles
CBDims == 1..3
\* the central cells per dimension rebuild() computes, at least one
CBCellsPerDim == [CBDims -> 1..MaxCellsPerDim]
cellsPerDim(d) == _cellsPerDimensionWithHalo[d] - 2

\* CellBlock3D::rebuild(vec, bMin, bMax, interactionLength)
cbRebuild(perDim) == [d \in CBDims |-> perDim[d] + 2]

\* one coordinate of a position: the cell of the exact quotient
\* (pos - boxMin) / cellLength, -1 below boxMin, and whether the double
\* product (pos - boxMin) * _cellLengthReciprocal rounds up to the next
\* integer
CBCoordinate(d) == [cell : -1..cellsPerDim(d), roundsUp : BOOLEAN]
CBPositions ==
  {pos \in [CBDims -> [cell : -1..MaxCellsPerDim, roundsUp : BOOLEAN]] :
     \A d \in CBDims : pos[d] \in CBCoordinate(d)}

\* utils::inBox(pos, _boxMin, _boxMax)
cbInBox(pos) ==
  \A d \in CBDims : pos[d].cell >= 0 /\ pos[d].cell < cellsPerDim(d)

Min2(a, b) == IF a < b THEN a ELSE b

\* CellBlock3D::get3DIndexOfPosition(pos), the three dimensions, with the
\* rounding of the double product
cbGet3DIndexOfPosition(pos) ==
  [d \in CBDims |->
     LET value == pos[d].cell + (IF pos[d].roundsUp THEN 1 ELSE 0) + 1
         nonnegativeValue == Max(value, 0)
         nonLargerValue ==
           Min2(nonnegativeValue, _cellsPerDimensionWithHalo[d] - 1)
     IN IF pos[d].cell >= cellsPerDim(d)
        THEN _cellsPerDimensionWithHalo[d] - 1
        ELSE IF pos[d].cell < 0 THEN 0 ELSE nonLargerValue]

\* the cells the three loops of clearHaloCells() clear, by 3-D index
clearedCells ==
  LET n == _cellsPerDimensionWithHalo
  IN {<<i, j, k>> : i \in {0, n[1] - 1}, j \in 0..(n[2] - 1),
                    k \in 0..(n[3] - 1)}
     \cup {<<i, j, k>> : i \in 1..(n[1] - 2), j \in {0, n[2] - 1},
                         k \in 0..(n[3] - 1)}
     \cup {<<i, j, k>> : i \in 1..(n[1] - 2), j \in 1..(n[2] - 2),
                         k \in {0, n[3] - 1}}

cbCalled(call) == cbLast' = call

cbIndex(pos) ==
  LET c == cbGet3DIndexOfPosition(pos) IN <<c[1], c[2], c[3]>>

\* add of the linked cells: the particle goes to getContainingCell(pos)
cbAddParticle(id, pos) ==
  /\ id \notin {q.id : q \in _vec1D}
  /\ cbInBox(pos)
  /\ _vec1D' = _vec1D \cup {[id |-> id, owned |-> TRUE, cell |-> cbIndex(pos)]}
  /\ cbCalled("addParticle")
  /\ UNCHANGED _cellsPerDimensionWithHalo
  /\ UNCHANGED cbOthers

\* addHalo of the linked cells
cbAddHaloParticle(id, pos) ==
  /\ id \notin {q.id : q \in _vec1D}
  /\ ~cbInBox(pos)
  /\ _vec1D' = _vec1D \cup
                 {[id |-> id, owned |-> FALSE, cell |-> cbIndex(pos)]}
  /\ cbCalled("addHaloParticle")
  /\ UNCHANGED _cellsPerDimensionWithHalo
  /\ UNCHANGED cbOthers

\* CellBlock3D::clearHaloCells()
clearHaloCells ==
  /\ _vec1D' = {q \in _vec1D : q.cell \notin clearedCells}
  /\ cbCalled("clearHaloCells")
  /\ UNCHANGED _cellsPerDimensionWithHalo
  /\ UNCHANGED cbOthers

CBInit ==
  /\ \E perDim \in CBCellsPerDim :
       _cellsPerDimensionWithHalo = cbRebuild(perDim)
  /\ _vec1D = {}
  /\ cbLast = "none"

CBNext ==
  \/ \E id \in CBParticleIds, pos \in CBPositions : cbAddParticle(id, pos)
  \/ \E id \in CBParticleIds, pos \in CBPositions :
       cbAddHaloParticle(id, pos)
  \/ clearHaloCells

\* ---------------------------------------------------------------------
\* VerletListsCellsNeighborList
\* (containers/verletListsCellBased/verletListsCells)
\* ---------------------------------------------------------------------
NLCellIds == 1..NumNLCells
NoCell == <<0, 0>>

\* cell and index within the cell of the particles the linked cells hold
nlPlaces == {ck \in NLCellIds \X (1..NumParticleIds) :
               ck[2] <= Len(nlCells[ck[1]])}
nlParticleAt(ck) == nlCells[ck[1]][ck[2]]
nlPresent == {nlParticleAt(ck) : ck \in nlPlaces}
nlPlaceOf(p) == CHOOSE ck \in nlPlaces : nlParticleAt(ck) = p

nlCalled(call, useNewton3) ==
  /\ nlLast' = [call |-> call, useNewton3 |-> useNewton3]
  /\ nlPrevious' = nlLast

\* the ordered pairs of places the build traversal hands to the generator
\* functor: particles of the same cell or of adjacent cells (all of them
\* within cutoff + skin), each pair once with Newton 3, the base cell
\* first, and in both directions without
nlOffersBroken(useNewton3) ==
  {ab \in nlPlaces \X nlPlaces :
     /\ ab[1] # ab[2]
     /\ ab[1][1] - ab[2][1] \in {-1, 0, 1}
     /\ useNewton3 => ab[1][1] < ab[2][1]}

nlOffers(useNewton3) ==
  {ab \in nlPlaces \X nlPlaces :
     /\ ab[1] # ab[2]
     /\ ab[1][1] - ab[2][1] \in {-1, 0, 1}
     /\ useNewton3 =>
          \/ ab[1][1] < ab[2][1]
          \/ ab[1][1] = ab[2][1] /\ ab[1][2] < ab[2][2]}

\* buildAoSNeighborList(linkedCells, useNewton3, ...): the lists are
\* cleared, every particle of every cell gets an empty list and its entry
\* in the map, then the generator functor fills the lists
buildAoSNeighborList(useNewton3) ==
  /\ _aosNeighborList' =
       [c \in NLCellIds |->
          [k \in 1..Len(nlCells[c]) |->
             [particle |-> nlCells[c][k],
              neighbors |-> {nlParticleAt(ab[2]) :
                               ab \in {x \in nlOffers(useNewton3) :
                                         x[1] = <<c, k>>}}]]]
  /\ _particleToCellMap' =
       [p \in ParticleIds |->
          IF p \in nlPresent THEN nlPlaceOf(p) ELSE _particleToCellMap[p]]
  /\ nlCalled("buildAoSNeighborList", useNewton3)
  /\ UNCHANGED nlCells
  /\ UNCHANGED nlOthers

\* add of the linked cells: the particle is appended to its cell
nlAddParticle(p, c) ==
  /\ p \notin nlPresent
  /\ nlCells' = [nlCells EXCEPT ![c] = Append(@, p)]
  /\ nlCalled("addParticle", FALSE)
  /\ UNCHANGED <<_aosNeighborList, _particleToCellMap>>
  /\ UNCHANGED nlOthers

nlWithout(s, p) == SelectSeq(s, LAMBDA q : q # p)

\* a particle moves and updateContainer of the linked cells puts it into
\* the cell that contains it now
nlUpdateContainer(p, c) ==
  /\ p \in nlPresent
  /\ nlPlaceOf(p)[1] # c
  /\ nlCells' = [d \in NLCellIds |->
                   IF d = c THEN Append(nlCells[d], p)
                   ELSE nlWithout(nlCells[d], p)]
  /\ nlCalled("updateContainer", FALSE)
  /\ UNCHANGED <<_aosNeighborList, _particleToCellMap>>
  /\ UNCHANGED nlOthers

\* a particle is deleted from its cell
nlDeleteParticle(p) ==
  /\ p \in nlPresent
  /\ nlCells' = [d \in NLCellIds |-> nlWithout(nlCells[d], p)]
  /\ nlCalled("deleteParticle", FALSE)
  /\ UNCHANGED <<_aosNeighborList, _particleToCellMap>>
  /\ UNCHANGED nlOthers

\* VerletListsCellsNeighborList(): empty lists, empty map
NLInit ==
  /\ nlCells = [c \in NLCellIds |-> <<>>]
  /\ _aosNeighborList = [c \in NLCellIds |-> <<>>]
  /\ _particleToCellMap = [p \in ParticleIds |-> NoCell]
  /\ nlLast = [call |-> "none", useNewton3 |-> FALSE]
  /\ nlPrevious = [call |-> "none", useNewton3 |-> FALSE]

NLNext ==
  \/ \E useNewton3 \in BOOLEAN : buildAoSNeighborList(useNewton3)
  \/ \E p \in ParticleIds, c \in NLCellIds : nlAddParticle(p, c)
  \/ \E p \in ParticleIds, c \in NLCellIds : nlUpdateContainer(p, c)
  \/ \E p \in ParticleIds : nlDeleteParticle(p)

\* ---------------------------------------------------------------------
\* OctreeLeafNode (containers/octree/OctreeLeafNode.h): the leaf an
\* insertion arrives at
\* ---------------------------------------------------------------------
\* Octree::Octree: int unsigned treeSplitThreshold = 16
treeSplitThreshold == 16
OLDims == 1..3

RECURSIVE olPow2(_)
olPow2(n) == IF n = 0 THEN 1 ELSE 2 * olPow2(n - 1)

\* splitLeafDimensions[d] < _interactionLength for some d of ds, for a
\* leaf of the given level, with splitLeafDimensions = (boxMax - boxMin)
\* * 0.5; a leaf of level n has the n-th half of the sides of the root, and
\* both sides of the comparison are scaled by 2^(n + 1) to stay in the
\* integers
olAnySmaller(ds, level) ==
  \E d \in ds : olRootSide[d] < olInteractionLength * olPow2(level + 1)

anyNewDimSmallerThanMinSizeBroken == olAnySmaller({1}, olLevel)

anyNewDimSmallerThanMinSize == olAnySmaller(OLDims, olLevel)

\* OctreeLeafNode::insert(p): the particle is stored and nullptr returned,
\* or a new inner node takes the particles of the leaf and p; the model
\* then follows one of its child leaves, which holds any number of them
\* that left it a leaf
olInsert(childSize) ==
  /\ IF olSize < treeSplitThreshold \/ anyNewDimSmallerThanMinSize
     THEN /\ childSize = 0
          /\ olSize' = olSize + 1
          /\ olLast' = "nullptr"
          /\ UNCHANGED olLevel
     ELSE /\ childSize <= olSize + 1
          /\ childSize <= treeSplitThreshold
               \/ olAnySmaller(OLDims, olLevel + 1)
          /\ olSize' = childSize
          /\ olLevel' = olLevel + 1
          /\ olLast' = "newInner"
  /\ olSize < MaxLeafParticles
  /\ UNCHANGED <<olRootSide, olInteractionLength>>
  /\ UNCHANGED olOthers

\* OctreeLeafNode::deleteParticle(particle)
olDeleteParticle ==
  /\ olSize > 0
  /\ olSize' = olSize - 1
  /\ olLast' = "deleted"
  /\ UNCHANGED <<olRootSide, olInteractionLength, olLevel>>
  /\ UNCHANGED olOthers

\* OctreeLeafNode(boxMin, boxMax, parent, treeSplitThreshold,
\* interactionLength, cellSizeFactor): an empty leaf
OLInit ==
  /\ olRootSide \in [OLDims -> 1..MaxSide]
  /\ olInteractionLength \in 1..MaxInteractionLength
  /\ olLevel = 0
  /\ olSize = 0
  /\ olLast = "none"

OLNext ==
  \/ \E childSize \in 0..MaxLeafParticles : olInsert(childSize)
  \/ olDeleteParticle

\* ---------------------------------------------------------------------
\* VerletClusterLists with one thread adding a particle and one deleting
\* from a tower while another rebuilds the towers: addParticleImpl and
\* rebuildTowersAndClusters statement by statement
\* ---------------------------------------------------------------------
VCBuilderPhases == {"idle", "building", "built"}
vcQuiet == vcAdding = {} /\ vcBuilder = "idle"

\* addParticleImpl(p) / addHaloParticleImpl(p), lines 111 and 119:
\* _isValid = ValidityState::invalid
addStoreInvalid(id, owned, inBox) ==
  /\ vcAdding = {}
  /\ id \notin vclIdsOf(vclAllParticles)
  /\ _isValid' = "invalid"
  /\ vcAdding' = {[id |-> id, owned |-> owned, inBox |-> owned /\ inBox]}
  /\ UNCHANGED <<_particlesToAdd, _towers, _neighborLists, vclLast, vcBuilder>>
  /\ UNCHANGED vcOthers

\* lines 112 and 122: _particlesToAdd.push_back(p). While the builder of
\* another thread reads and clears the vector the push is a data race:
\* the particle lands in the vector or is lost
addPushBack(lost) ==
  /\ vcAdding # {}
  /\ lost => vcBuilder = "building"
  /\ _particlesToAdd' = IF lost THEN _particlesToAdd
                        ELSE _particlesToAdd \cup vcAdding
  /\ vcAdding' = {}
  /\ vclCalled("addParticle", "done", {})
  /\ UNCHANGED <<_isValid, _towers, _neighborLists, vcBuilder>>
  /\ UNCHANGED vcOthers

\* begin(behavior) non-const, line 212, and rebuildNeighborLists, line 310:
\* the thread that finds the structure invalid starts the rebuild
rebuildStart ==
  /\ vcBuilder = "idle"
  /\ _isValid = "invalid"
  /\ vcBuilder' = "building"
  /\ UNCHANGED <<vclVars, vcAdding>>
  /\ UNCHANGED vcOthers

\* rebuildTowersAndClusters(), lines 495-497: the builder sorts the waiting
\* particles into the towers and clears the vector
builderRebuildTowersAndClusters ==
  /\ vcBuilder = "building"
  /\ _towers' = _towers \cup _particlesToAdd
  /\ _particlesToAdd' = {}
  /\ vcBuilder' = "built"
  /\ UNCHANGED <<_isValid, _neighborLists, vclLast, vcAdding>>
  /\ UNCHANGED vcOthers

\* rebuildTowersAndClusters(), line 498:
\* _isValid = ValidityState::cellsValidListsInvalid
rebuildStoreValid ==
  /\ vcBuilder = "built"
  /\ _isValid' = "cellsValidListsInvalid"
  /\ vcBuilder' = "idle"
  /\ vclCalled("rebuildTowersAndClusters", "done", {})
  /\ UNCHANGED <<_particlesToAdd, _towers, _neighborLists, vcAdding>>
  /\ UNCHANGED vcOthers

\* ClusterTower::deleteByIndex and notifyParticleDeleted() of a thread
\* still iterating while the towers are rebuilt
notifyParticleDeleted(q) ==
  /\ vcBuilder = "built"
  /\ q \in _towers
  /\ _towers' = _towers \ {q}
  /\ _isValid' = "invalid"
  /\ vclCalled("deleteParticle", "done", {q})
  /\ UNCHANGED <<_particlesToAdd, _neighborLists, vcAdding, vcBuilder>>
  /\ UNCHANGED vcOthers

VCInit ==
  /\ vcAdding = {}
  /\ vcBuilder = "idle"

VCNext ==
  \/ \E id \in ParticleIds, owned \in BOOLEAN, inBox \in BOOLEAN :
       addStoreInvalid(id, owned, inBox)
  \/ \E lost \in BOOLEAN : addPushBack(lost)
  \/ rebuildStart
  \/ builderRebuildTowersAndClusters
  \/ rebuildStoreValid
  \/ \E q \in VCLParticle : notifyParticleDeleted(q)
  \/ (\E isClusterTraversal \in BOOLEAN :
        iteratePairwise(isClusterTraversal)) /\ vcQuiet
  \/ (\E id \in ParticleIds, inBox \in BOOLEAN :
        addParticleImpl(id, inBox)) /\ vcQuiet
  \/ (\E id \in ParticleIds : addHaloParticleImpl(id)) /\ vcQuiet
  \/ deleteHaloParticles /\ vcQuiet
  \/ updateContainer /\ vcQuiet
  \/ (\E isClusterTraversal \in BOOLEAN :
        rebuildNeighborLists(isClusterTraversal)) /\ vcQuiet
  \/ (\E moved \in SUBSET VCLParticle : vclBegin(moved)) /\ vcQuiet
  \/ vclBeginConst /\ vcQuiet
  \/ deleteAllParticles /\ vcQuiet

\* ---------------------------------------------------------------------
\* VerletClusterLists: the static cluster-thread-partition
\* (calculateClusterThreadPartition, fillClusterRanges)
\* ---------------------------------------------------------------------
minNumClusterPairsPerThread == 1000

\* cluster.getNeighbors().size() of a cluster
CPNeighborCounts ==
  {k * (minNumClusterPairsPerThread \div 2) : k \in 0..MaxNeighborSteps}

\* a tower: the neighbor counts of its clusters; the towers of a container
CPTower == SeqsUpTo(CPNeighborCounts, MaxClustersPerTower)
CPTowers == SeqsUpTo(CPTower, MaxCPTowers)

\* struct ClusterRange, value-initialized
ClusterRange(tower, index, num) ==
  [startTowerIndex |-> tower, startIndexInTower |-> index, numClusters |-> num]
cpEmptyRange == ClusterRange(0, 0, 0)

\* the clusters in the order of the two loops of fillClusterRanges, with
\* the indices the loops count from 0
RECURSIVE cpClustersFrom(_, _)
cpClustersFrom(towers, t) ==
  IF t > Len(towers) THEN <<>>
  ELSE [i \in 1..Len(towers[t]) |->
          [tower |-> t - 1, index |-> i - 1, neighbors |-> towers[t][i]]]
       \o cpClustersFrom(towers, t + 1)
cpClusters(towers) == cpClustersFrom(towers, 1)

\* traverseClusters: numClusterPairs += cluster.getNeighbors().size()
RECURSIVE cpNumClusterPairs(_)
cpNumClusterPairs(clusters) ==
  IF clusters = <<>> THEN 0
  ELSE Head(clusters).neighbors + cpNumClusterPairs(Tail(clusters))

\* std::clamp(v, lo, hi)
cpClamp(v, lo, hi) == IF v < lo THEN lo ELSE IF v > hi THEN hi ELSE v

\* _clusterThreadPartition.resize(numThreads)
cpResize(partition, numThreads) ==
  [k \in 1..numThreads |->
     IF k <= Len(partition) THEN partition[k] ELSE cpEmptyRange]

\* the body of the inner loop of fillClusterRanges for one cluster; thread
\* counts from 0 as currentThread does
cpLoopBody(st, cluster, numClusterPairsPerThread, numThreads) ==
  LET started == IF st.threadIsInitialized THEN st.partition
                 ELSE [st.partition EXCEPT ![st.currentThread + 1] =
                         ClusterRange(cluster.tower, cluster.index, 0)]
      toAdd == st.currentNumClustersToAdd + 1
      total == st.numClusterPairsTotal + cluster.neighbors
  IN IF total >= numClusterPairsPerThread * (st.currentThread + 1)
     THEN [partition |-> [started EXCEPT ![st.currentThread + 1].numClusters =
                            @ + toAdd],
           currentThread |-> IF st.currentThread + 1 >= numThreads
                             THEN st.currentThread ELSE st.currentThread + 1,
           currentNumClustersToAdd |-> 0,
           numClusterPairsTotal |-> total,
           threadIsInitialized |-> st.currentThread + 1 >= numThreads]
     ELSE [partition |-> started, currentThread |-> st.currentThread,
           currentNumClustersToAdd |-> toAdd, numClusterPairsTotal |-> total,
           threadIsInitialized |-> TRUE]

RECURSIVE cpLoop(_, _, _, _)
cpLoop(st, clusters, numClusterPairsPerThread, numThreads) ==
  IF clusters = <<>> THEN st
  ELSE cpLoop(cpLoopBody(st, Head(clusters), numClusterPairsPerThread,
                         numThreads),
              Tail(clusters), numClusterPairsPerThread, numThreads)

\* fillClusterRanges after the loops: the last range takes the rest of the
\* clusters, the threads that remain get empty ranges
cpAfterLoopsBroken(st, numThreads) ==
  LET cleared == IF st.threadIsInitialized THEN st.partition
                 ELSE [st.partition EXCEPT ![st.currentThread + 1] =
                         cpEmptyRange]
  IN [k \in 1..numThreads |->
        IF k > st.currentThread + 1 THEN cpEmptyRange ELSE cleared[k]]

cpAfterLoops(st, numThreads) ==
  LET cleared == IF st.threadIsInitialized THEN st.partition
                 ELSE [st.partition EXCEPT ![st.currentThread + 1] =
                         cpEmptyRange]
      rest == IF st.currentNumClustersToAdd # 0
              THEN [cleared EXCEPT ![st.currentThread + 1].numClusters =
                      @ + st.currentNumClustersToAdd]
              ELSE cleared
  IN [k \in 1..numThreads |->
        IF k > st.currentThread + 1 THEN cpEmptyRange ELSE rest[k]]

\* fillClusterRanges(numClusterPairsPerThread, numThreads)
fillClusterRanges(partition, towers, numClusterPairsPerThread, numThreads) ==
  cpAfterLoops(cpLoop([partition |-> cpResize(partition, numThreads),
                       currentThread |-> 0, currentNumClustersToAdd |-> 0,
                       numClusterPairsTotal |-> 0,
                       threadIsInitialized |-> FALSE],
                      cpClusters(towers), numClusterPairsPerThread,
                      numThreads),
               numThreads)

\* calculateClusterThreadPartition(): the number of threads and of cluster
\* pairs per thread
cpNumThreads(towers, maxThreads) ==
  cpClamp(cpNumClusterPairs(cpClusters(towers))
            \div minNumClusterPairsPerThread, 1, maxThreads)

\* std::max(ceil(numClusterPairs / numThreads), 1)
cpNumClusterPairsPerThread(towers, maxThreads) ==
  LET pairs == cpNumClusterPairs(cpClusters(towers))
      numThreads == cpNumThreads(towers, maxThreads)
      ceil == (pairs + numThreads - 1) \div numThreads
  IN IF ceil < 1 THEN 1 ELSE ceil

\* calculateClusterThreadPartition() with autopas_get_max_threads() threads
calculateClusterThreadPartition(maxThreads) ==
  /\ _clusterThreadPartition' =
       fillClusterRanges(_clusterThreadPartition, cpTowers,
                         cpNumClusterPairsPerThread(cpTowers, maxThreads),
                         cpNumThreads(cpTowers, maxThreads))
  /\ cpLast' = [call |-> "calculateClusterThreadPartition",
                maxThreads |-> maxThreads]
  /\ UNCHANGED cpTowers
  /\ UNCHANGED cpOthers

\* rebuildNeighborListsAndFillClusters: the builder leaves the towers with
\* new clusters and neighbor lists
cpRebuildNeighborLists(towers) ==
  /\ cpTowers' = towers
  /\ cpLast' = [call |-> "rebuildNeighborListsAndFillClusters",
                maxThreads |-> 0]
  /\ UNCHANGED _clusterThreadPartition
  /\ UNCHANGED cpOthers

CPInit ==
  /\ cpTowers = <<>>
  /\ _clusterThreadPartition = <<>>
  /\ cpLast = [call |-> "none", maxThreads |-> 0]

CPNext ==
  \/ \E maxThreads \in 1..MaxOmpThreads :
       calculateClusterThreadPartition(maxThreads)
  \/ \E towers \in CPTowers : cpRebuildNeighborLists(towers)

\* ---------------------------------------------------------------------
\* Specifications: one per subsystem, the others parked
\* ---------------------------------------------------------------------
SelParked == SelInit /\ _allowedTraversalOptions = <<>>
CommParked ==
  /\ CommInit
  /\ mpiCommSize = 1
  /\ mpiLocal = [r \in Ranks |->
                   [config |-> [container |-> 1, traversal |-> 1,
                                cellSizeFactor |-> 1],
                    time |-> 1]]
TPParked == TPInit
NLParked == NLInit
VCParked == VCInit
CPParked == CPInit
OLParked ==
  /\ olRootSide = [d \in OLDims |-> 1]
  /\ olInteractionLength = 1
  /\ olLevel = 0
  /\ olSize = 0
  /\ olLast = "none"
OCParked == containerType = "verletClusterLists" /\ OCInit
CBParked ==
  /\ _cellsPerDimensionWithHalo = [d \in CBDims |-> 3]
  /\ _vec1D = {}
  /\ cbLast = "none"
VLParked == VLInit /\ _rebuildFrequency = 1

VVParked == VVInit
VCLParked == VCLInit
CTParked == CTInit
C08Parked == C08Init /\ _cellsPerDimension = [d \in 1..3 |-> 2]
SLParked == SLInit /\ _sliceThickness = [k \in Slices |-> 1]
OTParked ==
  /\ OTInit
  /\ otNumOwnedLeaves = 1
  /\ otNeighbors = {}
  /\ otLeafOf = [q \in OTParticles |-> 1]

InitSelector == SelInit /\ TPParked /\ VLParked /\ VVParked /\ VCLParked
  /\ OTParked /\ SLParked /\ C08Parked /\ CTParked /\ CommParked
  /\ OCParked /\ CBParked /\ NLParked /\ OLParked /\ VCParked /\ CPParked
SpecSelector == InitSelector /\ [][SelNext]_vars

InitTuning == SelInit /\ TPInit /\ CommParked /\ VLParked /\ VVParked
  /\ VCLParked /\ OTParked /\ SLParked /\ C08Parked /\ CTParked
  /\ OCParked /\ CBParked /\ NLParked /\ OLParked /\ VCParked /\ CPParked
SpecTuning == InitTuning /\ [][TPNext]_vars

InitVL == VLInit /\ SelParked /\ TPParked /\ VVParked /\ VCLParked
  /\ OTParked /\ SLParked /\ C08Parked /\ CTParked /\ CommParked
  /\ OCParked /\ CBParked /\ NLParked /\ OLParked /\ VCParked /\ CPParked
SpecVL == InitVL /\ [][VLNext]_vars

InitVLValidity == VVInit /\ SelParked /\ TPParked /\ VLParked /\ VCLParked
  /\ OTParked /\ SLParked /\ C08Parked /\ CTParked /\ CommParked
  /\ OCParked /\ CBParked /\ NLParked /\ OLParked /\ VCParked /\ CPParked
SpecVLValidity == InitVLValidity /\ [][VVNext]_vars

InitVCL == VCLInit /\ SelParked /\ TPParked /\ VLParked /\ VVParked
  /\ OTParked /\ SLParked /\ C08Parked /\ CTParked /\ CommParked
  /\ OCParked /\ CBParked /\ NLParked /\ OLParked /\ VCParked /\ CPParked
SpecVCL == InitVCL /\ [][VCLNext]_vars

InitOT == OTInit /\ SelParked /\ TPParked /\ VLParked /\ VVParked
  /\ VCLParked /\ SLParked /\ C08Parked /\ CTParked /\ CommParked
  /\ OCParked /\ CBParked /\ NLParked /\ OLParked /\ VCParked /\ CPParked
SpecOT == InitOT /\ [][OTNext]_vars

InitSliced == SLInit /\ SelParked /\ TPParked /\ VLParked /\ VVParked
  /\ VCLParked /\ OTParked /\ C08Parked /\ CTParked /\ CommParked
  /\ OCParked /\ CBParked /\ NLParked /\ OLParked /\ VCParked /\ CPParked
SpecSliced == InitSliced /\ [][SLNext]_vars

InitC08 == C08Init /\ SelParked /\ TPParked /\ VLParked /\ VVParked
  /\ VCLParked /\ OTParked /\ SLParked /\ CTParked /\ CommParked
  /\ OCParked /\ CBParked /\ NLParked /\ OLParked /\ VCParked /\ CPParked
SpecC08 == InitC08 /\ [][C08Next]_vars

InitCluster == CTInit /\ SelParked /\ TPParked /\ VLParked /\ VVParked
  /\ VCLParked /\ OTParked /\ SLParked /\ C08Parked /\ CommParked
  /\ OCParked /\ CBParked /\ NLParked /\ OLParked /\ VCParked /\ CPParked
SpecCluster == InitCluster /\ [][CTNext]_vars

InitComm == CommInit /\ SelParked /\ TPParked /\ VLParked /\ VVParked
  /\ VCLParked /\ OTParked /\ SLParked /\ C08Parked /\ CTParked
  /\ OCParked /\ CBParked /\ NLParked /\ OLParked /\ VCParked /\ CPParked
SpecComm == InitComm /\ [][CommNext]_vars

InitContainers == ContainersInit /\ VCLInit /\ SelParked /\ TPParked
  /\ VLParked /\ VVParked /\ OTParked /\ SLParked /\ C08Parked /\ CTParked
  /\ CommParked /\ CBParked /\ NLParked /\ OLParked /\ VCParked
  /\ CPParked
SpecContainers == InitContainers /\ [][ContainersNext]_vars

InitCellBlock == CBInit /\ SelParked /\ TPParked /\ VLParked /\ VVParked
  /\ VCLParked /\ OTParked /\ SLParked /\ C08Parked /\ CTParked
  /\ CommParked /\ OCParked /\ NLParked /\ OLParked /\ VCParked
  /\ CPParked
SpecCellBlock == InitCellBlock /\ [][CBNext]_vars

InitNeighborList == NLInit /\ SelParked /\ TPParked /\ VLParked
  /\ VVParked /\ VCLParked /\ OTParked /\ SLParked /\ C08Parked
  /\ CTParked /\ CommParked /\ OCParked /\ CBParked /\ OLParked
  /\ VCParked /\ CPParked
SpecNeighborList == InitNeighborList /\ [][NLNext]_vars

InitLeaf == OLInit /\ SelParked /\ TPParked /\ VLParked /\ VVParked
  /\ VCLParked /\ OTParked /\ SLParked /\ C08Parked /\ CTParked
  /\ CommParked /\ OCParked /\ CBParked /\ NLParked /\ VCParked
  /\ CPParked
SpecLeaf == InitLeaf /\ [][OLNext]_vars

InitVCLConcurrent == VCLInit /\ VCInit /\ SelParked /\ TPParked
  /\ VLParked /\ VVParked /\ OTParked /\ SLParked /\ C08Parked /\ CTParked
  /\ CommParked /\ OCParked /\ CBParked /\ NLParked /\ OLParked
  /\ CPParked
SpecVCLConcurrent == InitVCLConcurrent /\ [][VCNext]_vars

InitPartition == CPInit /\ SelParked /\ TPParked /\ VLParked /\ VVParked
  /\ VCLParked /\ OTParked /\ SLParked /\ C08Parked /\ CTParked
  /\ CommParked /\ OCParked /\ CBParked /\ NLParked /\ OLParked
  /\ VCParked
SpecPartition == InitPartition /\ [][CPNext]_vars

\* ---------------------------------------------------------------------
\* Claims on the traversal selector
\* ---------------------------------------------------------------------
\* the samples of option o in the last commit
CommittedTimes(o) == TimesOf(committed.times, o)
CommittedOptions == MeasuredOptions(committed.times)

\* a <= b for the exact reduced values of two non-empty sample sequences:
\* the minimum, the arithmetic mean (compared by cross-multiplication) and
\* the median (twice the median, the mean of the two middle samples when
\* their number is even)
TwiceMedian(s) ==
  LET t == SortTimes(s)
      n == Len(s)
  IN IF n % 2 = 1 THEN 2 * t[(n + 1) \div 2]
     ELSE t[n \div 2] + t[(n \div 2) + 1]

ExactLeq(strategy, a, b) ==
  CASE strategy = "fastestAbs" -> Min(Range(a)) <= Min(Range(b))
    [] strategy = "fastestMean" -> SeqSum(a) * Len(b) <= SeqSum(b) * Len(a)
    [] strategy = "fastestMedian" -> TwiceMedian(a) <= TwiceMedian(b)

\* the reduced value as an integer: the minimum, the mean rounded down, the
\* sample with at most n/2 samples below it and more than n/2 not above it
IsFloorReduced(strategy, s, v) ==
  CASE strategy = "fastestAbs" ->
         v \in Range(s) /\ \A i \in 1..Len(s) : v <= s[i]
    [] strategy = "fastestMean" ->
         v * Len(s) <= SeqSum(s) /\ SeqSum(s) < (v + 1) * Len(s)
    [] strategy = "fastestMedian" ->
         /\ v \in Range(s)
         /\ Cardinality({i \in 1..Len(s) : s[i] < v}) <= Len(s) \div 2
         /\ Cardinality({i \in 1..Len(s) : s[i] <= v}) > Len(s) \div 2

\* C10 (as stated): after a commit the committed traversal has the smallest
\* reduced sample time, the reduction being the minimum, the arithmetic
\* mean or the median of its samples.
C10_SmallestReducedTime ==
  committed # NoCommit =>
    /\ _currentTraversal \in CommittedOptions
    /\ \A o \in CommittedOptions :
         ExactLeq(committed.strategy, CommittedTimes(_currentTraversal),
                  CommittedTimes(o))

\* C10 (amended): after a commit the committed traversal has the smallest
\* reduced sample time, the reduction being the minimum, the mean rounded
\* down to an integer, or the sample at index n/2 of the sorted samples.
C10_SmallestIntegerReducedTime ==
  committed # NoCommit =>
    /\ _currentTraversal \in CommittedOptions
    /\ \A o \in CommittedOptions : \A v, w \in 0..MaxTime :
         (/\ IsFloorReduced(committed.strategy,
                            CommittedTimes(_currentTraversal), v)
          /\ IsFloorReduced(committed.strategy, CommittedTimes(o), w))
           => v <= w

\* a commit by mean over two options whose rounded means differ
C10_Witness ==
  /\ committed.strategy = "fastestMean"
  /\ Cardinality(CommittedOptions) = 2
  /\ \E o \in CommittedOptions :
       MeanTime(CommittedTimes(o)) > MeanTime(CommittedTimes(_currentTraversal))

C1_RebuildEveryR ==
  (~everChanged /\ pairwiseCalls >= 1) =>
    /\ rebuiltInLastCall <=> ((pairwiseCalls - 1) % _rebuildFrequency = 0)
    /\ (_rebuildFrequency = 1) => rebuiltInLastCall

\* the seventh call of an untouched container with R = 3 rebuilt (the third
\* rebuild of testRebuildFrequencyEvery3)
C1_Witness ==
  /\ ~everChanged
  /\ _rebuildFrequency = 3
  /\ pairwiseCalls = 7
  /\ rebuiltInLastCall

\* C2: after addParticle, addHaloParticle or updateContainer the next
\* pairwise iteration rebuilds, whatever the counter, and the R-1 pairwise
\* iterations after it do not.
C2_ForcedRebuildRestartsCadence ==
  everChanged =>
    /\ (pairwiseCalls = 1) => rebuiltInLastCall
    /\ (pairwiseCalls \in 2.._rebuildFrequency) => ~rebuiltInLastCall

\* R = 3: a change, then three pairwise iterations, the last two without a
\* rebuild
C2_Witness ==
  /\ everChanged
  /\ _rebuildFrequency = 3
  /\ pairwiseCalls = 3
  /\ ~rebuiltInLastCall

\* particle i is further than skin/2 from its position at the last rebuild
vvMovedFar(i) == 2 * Abs(vvR[i] - vvBuiltAt[i]) > vlSkin

C4_StaleListsRebuiltLocally ==
  vclLast.call = "iteratePairwise" =>
    vclLast.outcome \notin {"traversed stale lists",
                            "raised: lists not valid"}

\* ---------------------------------------------------------------------
\* Claims on the octree traversals
\* ---------------------------------------------------------------------
\* two owned particles in the same leaf or in adjacent owned leaves
otInteracting(pq) ==
  /\ otLeafOf[pq[1]] \in otOwnedLeaves
  /\ otLeafOf[pq[2]] \in otOwnedLeaves
  /\ \/ otLeafOf[pq[1]] = otLeafOf[pq[2]]
     \/ {otLeafOf[pq[1]], otLeafOf[pq[2]]} \in otNeighbors

\* C5: when a pairwise iteration has ended, every unordered pair of
\* interacting particles was passed to the functor exactly once with
\* Newton-3 and exactly once per ordering without it.
C5_EveryPairOnceOrTwice ==
  otPhase = "ended" =>
    \A pq \in OTPairs :
      otInteracting(pq) =>
        IF otUseNewton3
        THEN otCalls[pq] + otCalls[<<pq[2], pq[1]>>] = 1
        ELSE otCalls[pq] = 1

\* ---------------------------------------------------------------------
\* Claims on the lock-based sliced traversal
\* ---------------------------------------------------------------------
\* the boundary plane b: the first layer of slice b + 1
slPlaneLayer(b) == sliceStart(b + 1)

\* C6: the cells of the boundary plane between slice k and slice k + 1
\* are never touched by two workers at once; the higher slice holds the
\* lock of the plane while it touches its first layer, and the lower slice
\* touches the plane only while it holds that lock.
C6_BoundaryPlaneExclusive ==
  \A b \in Planes :
    /\ Cardinality({k \in Slices : slPlaneLayer(b) \in slTouching(k)}) <= 1
    /\ \A k \in Slices :
         (slPlaneLayer(b) \in slTouching(k) /\ k \in {b, b + 1}
          /\ (k = b + 1 => slAtFirstLayer(k)))
           => locks[b] = k

\* the lower slice touches the plane while the higher slice waits for the
\* lock before its first layer
C6_Witness ==
  \E b \in Planes :
    /\ slPlaneLayer(b) \in slTouching(b)
    /\ locks[b] = b
    /\ slPc[b + 1] = "ready" /\ slAtFirstLayer(b + 1)

\* ---------------------------------------------------------------------
\* Claims on the c08 traversal
\* ---------------------------------------------------------------------
\* the base cells the threads process at this moment
c08Active == {c08Current[thread] : thread \in Threads} \ {NoBase}
c08Distance(b1, b2, d) ==
  IF b1[d] >= b2[d] THEN b1[d] - b2[d] ELSE b2[d] - b1[d]

\* C7 as stated: any two base cells of the same colour are at least two
\* cells apart in every axis, so the footprints of base cells processed
\* concurrently never overlap.
C7_TwoApartInEveryAxis ==
  \A b1 \in c08Active, b2 \in c08Active :
    b1 # b2 =>
      /\ \A d \in 1..3 : c08Distance(b1, b2, d) >= 2
      /\ c08Footprint(b1) \cap c08Footprint(b2) = {}

\* C7 amended: any two base cells of the same colour are, in every axis,
\* either at the same coordinate or at least two cells apart, and at least
\* two cells apart in some axis, so the footprints of base cells processed
\* concurrently never overlap.
C7_TwoApartInSomeAxis ==
  \A b1 \in c08Active, b2 \in c08Active :
    b1 # b2 =>
      /\ \A d \in 1..3 : c08Distance(b1, b2, d) = 0
                          \/ c08Distance(b1, b2, d) >= 2
      /\ \E d \in 1..3 : c08Distance(b1, b2, d) >= 2
      /\ c08Footprint(b1) \cap c08Footprint(b2) = {}

\* two threads process two base cells of one colour at the same time
C7_Witness == Cardinality(c08Active) = 2

\* ---------------------------------------------------------------------
\* Claims on the cluster towers
\* ---------------------------------------------------------------------
ctIsDummy(particle) == particle.ownership = "dummy"
ctDistanceSquared(p, q) ==
  (p.r[1] - q.r[1]) * (p.r[1] - q.r[1])
  + (p.r[2] - q.r[2]) * (p.r[2] - q.r[2])
  + (p.r[3] - q.r[3]) * (p.r[3] - q.r[3])

C11_SamePhaseSameCommit ==
  \A i, j \in 1..Len(tpCommits) : tpCommits[i] = tpCommits[j]

\* two phases are over and the second was decided between two traversals
\* with the same mean
C11_Witness ==
  /\ Len(tpCommits) = 2
  /\ tpStrategy = "fastestMean"
  /\ committed.strategy = "fastestMean"
  /\ Cardinality(findFastestMeanTraversal(committed.times)) = 2

\* C12: when no allowed traversal is applicable the phase ends with a
\* fatal error and commits nothing; when one is applicable the phase skips
\* the others, raising no error and always returning to its caller.
C12_AllRejectedFatalElseSkipped ==
  IF Range(_allowedTraversalOptions) \cap tpApplicable = {}
  THEN /\ tpCommits = <<>>
       /\ tpPc \in {"distribute", "configure", "aborted", "select",
                   "commit", "fatal"}
  ELSE tpPc \notin {"fatal", "hung"}

\* C13: an empty search space is fatal.  distributeConfigurations raises
\* when its option sets span no configuration, and a tuner whose selector
\* has no allowed traversal never commits: every call that ends its first
\* phase raises.
C13_EmptySearchSpaceFatal ==
  /\ dcEmptySpace =>
       /\ dcOutcome = "exception: could not generate valid configurations"
       /\ tpPc = "aborted"
  /\ _allowedTraversalOptions = <<>> =>
       /\ tpCommits = <<>>
       /\ selResult # "traversals"
       /\ tpPc \in {"distribute", "configure", "aborted", "select",
                   "commit", "fatal"}
       /\ tpPc = "fatal" => selResult \in
            {"exception: before measuring",
             "exception: no traversals were generated"}

\* the search space was distributed, the selector has no allowed traversal
\* and the phase ended in selectOptimalTraversal's exception
C13_Witness ==
  /\ dcOutcome = "distributed"
  /\ _allowedTraversalOptions = <<>>
  /\ tpPc = "fatal"
  /\ selResult = "exception: before measuring"

\* C15: reporting the time of a functor that is not relevant for tuning
\* records nothing and leaves the selector's choice as it was: the samples,
\* the current traversal and the position in the allowed list are those
\* from before the report, and so are the commits made so far.
C15_IrrelevantNotRecorded ==
  [][tpIgnored' # tpIgnored =>
       UNCHANGED <<_traversalTimes, _currentTraversal, _isTuning,
                   _isInitialized, _allowedTraversalOptions, committed,
                   tpCommits>>]_vars

\* an irrelevant functor reported a time while samples were being
\* collected, and both phases committed
C15_Witness ==
  /\ tpIgnored > 0
  /\ Len(tpCommits) = 2

\* ---------------------------------------------------------------------
\* Claims on the configuration communicator
\* ---------------------------------------------------------------------
\* the lowest-numbered rank whose local time is the smallest of all
mpiWinner ==
  LET best == Min({mpiLocal[q].time : q \in mpiRanks})
  IN Min({q \in mpiRanks : mpiLocal[q].time = best})

\* C14: every rank that has returned from optimizeConfiguration returned
\* the local optimum of the lowest-numbered rank whose local time is the
\* global minimum, so all ranks return the same configuration.
C14_AllRanksReturnWinner ==
  \A r \in mpiRanks :
    mpiPc[r] = "returned" => mpiReturned[r] = mpiLocal[mpiWinner].config

\* two ranks with the same local time and different local optima have
\* both returned
C14_Witness ==
  /\ mpiCommSize = 2
  /\ \A r \in mpiRanks : mpiPc[r] = "returned"
  /\ mpiLocal[0].time = mpiLocal[1].time
  /\ mpiLocal[0].config # mpiLocal[1].config

\* ---------------------------------------------------------------------
\* Claims on the pending buffer of VerletClusterLists
\* ---------------------------------------------------------------------
\* the call of this step rebuilt the towers: it is one of the calls that
\* run rebuildTowersAndClusters() on an invalid structure, and it was one
vclRebuiltInStep ==
  /\ _isValid = "invalid"
  /\ vclLast'.call \in {"begin", "deleteHaloParticles", "updateContainer",
                        "rebuildNeighborLists"}

\* C16: an added particle stays in _particlesToAdd until a call rebuilds
\* the towers, and only a rebuild moves particles of the buffer into the
\* towers.
C16_PendingUntilRebuild ==
  [][\A q \in _particlesToAdd :
       /\ q \notin _particlesToAdd' => vclRebuiltInStep
       /\ q.id \in vclIdsOf(_towers') => vclRebuiltInStep]_vars

\* C16, amended: as C16, but deleteAllParticles also empties the buffer,
\* discarding its particles; a rebuild leaves the buffer empty.
C16_PendingUntilRebuildOrDeleteAll ==
  [][/\ \A q \in _particlesToAdd :
          /\ q \notin _particlesToAdd' =>
               \/ vclRebuiltInStep
               \/ vclLast'.call = "deleteAllParticles" /\ _towers' = {}
          /\ q.id \in vclIdsOf(_towers') => vclRebuiltInStep
     /\ vclRebuiltInStep => _particlesToAdd' = {}]_vars

\* rebuildNeighborLists has just sorted the added particles into the towers
C16_Witness ==
  /\ vclLast.call = "rebuildNeighborLists"
  /\ Cardinality(_towers) = 2
  /\ _particlesToAdd = {}

\* how often an iteration by the const begin() started now meets the
\* particle id: once per tower entry, and once per entry of the buffer
\* when the structure is invalid and the buffer is iterated as well
vclConstVisits(id) ==
  Cardinality({q \in _towers : q.id = id})
    + (IF _isValid = "invalid"
       THEN Cardinality({q \in _particlesToAdd : q.id = id}) ELSE 0)

\* the same for the non-const begin(), which sorts the buffer in first
vclVisits(id) ==
  Cardinality({q \in vclSortedIn(vclState).towers : q.id = id})

\* C17: a particle that was added and not deleted since is met exactly
\* once by an iteration over halo and owned particles, const or not, also
\* while it waits in _particlesToAdd; the const begin() never raises.
C17_AddedVisitedOnce ==
  /\ \A q \in vclAllParticles :
       vclConstVisits(q.id) = 1 /\ vclVisits(q.id) = 1
  /\ _isValid # "invalid" => _particlesToAdd = {}
  /\ vclLast.call \in {"begin", "begin const"} =>
       /\ vclLast.outcome = "done"
       /\ vclIdsOf(vclLast.particles) = vclIdsOf(vclAllParticles)

\* a const iteration has just met a particle that still waits in the buffer
C17_Witness ==
  /\ vclLast.call = "begin const"
  /\ vclLast.outcome = "done"
  /\ _particlesToAdd # {}
  /\ _towers # {}
  /\ _particlesToAdd \subseteq vclLast.particles

\* ---------------------------------------------------------------------
\* Claims on the particle containers
\* ---------------------------------------------------------------------
vclOwned(ps) == {q \in ps : q.owned}

\* the step is a call of updateContainer of the VerletClusterLists
vclUpdated ==
  containerType = "verletClusterLists" /\ vclLast'.call = "updateContainer"

\* the step is a call of updateContainer of the octree
ocUpdated == containerType = "octree" /\ ocLast'.call = "updateContainer"

\* C18: after updateContainer every returned leaver was an owned particle
\* of the container before the call and lies outside the box, and every
\* owned particle the container still holds lies inside the box
C18_LeaversOwnedOutsideRestInside ==
  [][/\ vclUpdated =>
          /\ vclLast'.particles \subseteq vclOwned(vclAllParticles)
          /\ \A q \in vclLast'.particles : ~q.inBox
          /\ \A q \in vclOwned(vclAllParticles') : q.inBox
     /\ ocUpdated =>
          /\ ocLast'.particles \subseteq ocTagged(ocAllParticles, "owned")
          /\ \A q \in ocLast'.particles : ~q.inBox
          /\ \A q \in ocTagged(ocAllParticles', "owned") : q.inBox]_vars

\* an updateContainer of the octree returned a leaver and kept an owned
\* particle
C18_Witness ==
  /\ containerType = "octree"
  /\ ocLast.call = "updateContainer"
  /\ ocLast.particles # {}
  /\ ocTagged(_cells.OWNED, "owned") # {}

\* an updateContainer of the VerletClusterLists returned a leaver
C18_WitnessVCL ==
  /\ containerType = "verletClusterLists"
  /\ vclLast.call = "updateContainer"
  /\ vclLast.particles # {}
  /\ vclOwned(_towers) # {}

\* deleteHaloParticles of the VerletClusterLists leaves no halo particle
\* and keeps the owned ones
vclDeleteHaloExact ==
  [][vclLast'.call = "deleteHaloParticles" =>
       /\ vclAllParticles' \ vclOwned(vclAllParticles') = {}
       /\ vclOwned(vclAllParticles') = vclOwned(vclAllParticles)]_vars

\* deleteHaloParticles of the octree leaves no halo particle and keeps the
\* owned ones
ocDeleteHaloExact ==
  [][ocLast'.call = "deleteHaloParticles" =>
       /\ ocTagged(ocAllParticles', "halo") = {}
       /\ ocTagged(ocAllParticles', "owned") =
            ocTagged(ocAllParticles, "owned")]_vars

\* clearHaloCells of the cell block leaves no halo particle and keeps the
\* owned ones
cbClearHaloExact ==
  [][cbLast' = "clearHaloCells" =>
       /\ {q \in _vec1D' : ~q.owned} = {}
       /\ {q \in _vec1D' : q.owned} = {q \in _vec1D : q.owned}]_vars

\* C19: deleteHalo removes exactly the particles tagged halo: afterwards
\* no halo particle remains and the set of owned particles is unchanged,
\* in the VerletClusterLists, the octree and the cell block
C19_DeleteHaloExact ==
  [][/\ vclLast'.call = "deleteHaloParticles" =>
          /\ vclAllParticles' \ vclOwned(vclAllParticles') = {}
          /\ vclOwned(vclAllParticles') = vclOwned(vclAllParticles)
     /\ ocLast'.call = "deleteHaloParticles" =>
          /\ ocTagged(ocAllParticles', "halo") = {}
          /\ ocTagged(ocAllParticles', "owned") =
               ocTagged(ocAllParticles, "owned")
     /\ cbLast' = "clearHaloCells" =>
          /\ {q \in _vec1D' : ~q.owned} = {}
          /\ {q \in _vec1D' : q.owned} = {q \in _vec1D : q.owned}]_vars

\* ---------------------------------------------------------------------
\* Claims on the neighbor lists
\* ---------------------------------------------------------------------
nlEntries(lists) ==
  {lists[ck[1]][ck[2]] :
     ck \in {x \in NLCellIds \X (1..NumParticleIds) :
               x[2] <= Len(lists[x[1]])}}

\* the lists as a set of unordered pairs of particles
nlPairs(lists) ==
  UNION {{{e.particle, q} : q \in e.neighbors} : e \in nlEntries(lists)}

vvRebuildTwiceSamePairs ==
  [][vvListIsValid /\ vvBuiltAt = vvR /\ vvNeedsRebuild
       /\ vvTraversalsSince' = 1
     => _aosNeighborLists' = _aosNeighborLists]_vars

\* ---------------------------------------------------------------------
\* Claims on the leaf pairs of the octree traversals
\* ---------------------------------------------------------------------
\* the ordered pairs (leaf, neighbor) the iterations of the loop over the
\* leaves that are done have handed to processCellPair
otProcessedLeafPairs ==
  {ln \in OTLeaves \X OTLeaves :
     /\ ln[1] \in otOwnedLeaves
     /\ ln[1] < otNextLeaf
     /\ otProcessesPair(otTraversal, ln[1], ln[2])}

\* the pairs of adjacent leaves of the owned tree
otOwnedNeighbors == {pr \in otNeighbors : pr \subseteq otOwnedLeaves}

otPairsOnceSmallerFirst ==
  /\ \A pr \in otOwnedNeighbors :
       Cardinality({ln \in otProcessedLeafPairs : {ln[1], ln[2]} = pr}) = 1
  /\ \A ln \in otProcessedLeafPairs : ln[1] < ln[2]

\* C21: when a traversal with Newton-3 has ended, every pair of
\* neighbouring leaves was processed exactly once, by the leaf with the
\* smaller id
C21_LeafPairOnceSmallerIdFirst ==
  otPhase = "ended" /\ otUseNewton3 => otPairsOnceSmallerFirst

\* the same for ot_c18 alone
otC18PairsOnceSmallerFirst ==
  otPhase = "ended" /\ otUseNewton3 /\ otTraversal = "ot_c18"
    => otPairsOnceSmallerFirst

\* ---------------------------------------------------------------------
\* Claims on the octree leaf
\* ---------------------------------------------------------------------
\* the smallest side of the would-be children is at least the interaction
\* length (sides scaled as in olAnySmaller)
olChildrenLargeEnough ==
  \A d \in OLDims :
    olRootSide[d] >= olInteractionLength * olPow2(olLevel + 1)

C23_ReturnsSelectedOrStartsSearch ==
  selResult # "exception: no traversal selected yet"

\* C24: iteratePairwise raises "verlet lists are not valid" exactly when the
\* validity state at the call is not cellsAndListsValid, and otherwise runs
\* the traversal (the call leaves the validity state as it found it)
C24_RaisesIffListsNotValid ==
  vclLast.call = "iteratePairwise" =>
    /\ (vclLast.outcome = "raised: lists not valid")
         <=> (_isValid # "cellsAndListsValid")
    /\ _isValid = "cellsAndListsValid" =>
         vclLast.outcome \in {"traversed fresh lists", "traversed stale lists",
                              "raised: traversal of wrong type"}

\* C25: after a completed rebuildNeighborLists the validity state is
\* cellsAndListsValid
C25_RebuildMakesListsValid ==
  (vclLast.call = "rebuildNeighborLists" /\ vclLast.outcome = "done") =>
    _isValid = "cellsAndListsValid"

\* while the structure counts as valid no particle waits to be sorted in
vclBufferEmptyWhenValid == _isValid # "invalid" => _particlesToAdd = {}

\* C26: after any sequence of operations, adds and deletes issued while a
\* rebuild runs included, the buffer _particlesToAdd is empty whenever the
\* validity state is not invalid, and the const iterators never raise
\* "particle container is valid, but _particlesToAdd isn't empty!"
C26_ValidImpliesNothingToAdd ==
  /\ vclBufferEmptyWhenValid
  /\ vclLast.outcome # "raised: particlesToAdd not empty"

\* the lists a pairwise iteration traverses name a particle that has been
\* deleted since they were built
vclListsNameDeleted == _neighborLists \ vclIdsOf(vclAllParticles) # {}

\* C27: a deletion from a tower sets the validity state to invalid, so no
\* later pairwise iteration runs over neighbor lists built before the
\* deletion
C27_DeletedNeverTraversed ==
  (vclLast.call = "iteratePairwise" /\ vclListsNameDeleted) =>
    vclLast.outcome \notin {"traversed fresh lists", "traversed stale lists"}

\* what repeated calls of selectNextTraversal return, calls at most, from
\* (cur, tuning) with the same functor each time: the traversals in the
\* order returned, then NoOption for the null that ends the phase;
\* NoOption - 1 stands for a call that never returns
RECURSIVE selReturned(_, _, _, _, _)
selReturned(allowed, applicable, cur, tuning, calls) ==
  IF calls = 0 THEN <<>>
  ELSE LET r == selectNextLoop(allowed, applicable, cur, tuning,
                               2 * Len(allowed) + 2)
       IN CASE r.res = "traversal" ->
                 <<r.cur>> \o selReturned(allowed, applicable, r.cur,
                                          r.tuning, calls - 1)
            [] r.res = "null" -> <<NoOption>>
            [] OTHER -> <<NoOption - 1>>

\* the allowed traversals that are applicable, in the order of the list
selApplicableAllowed(allowed, applicable) ==
  SelectSeq(allowed, LAMBDA o : o \in applicable)

selEachOnceThenNull(allowed, cur) ==
  \A applicable \in SUBSET TraversalOptions :
    selReturned(allowed, applicable, cur, FALSE, 2 * Len(allowed) + 2)
      = selApplicableAllowed(allowed, applicable) \o <<NoOption>>

\* C28: from outside a tuning phase, repeated calls of selectNextTraversal
\* return every allowed traversal that is applicable once, in the order of
\* the allowed list, then null, after finitely many calls, whatever the
\* allowed list
C28_EachApplicableOnceThenNull ==
  ~_isTuning => selEachOnceThenNull(_allowedTraversalOptions,
                                    _currentTraversal)

\* the same for the allowed lists that name no traversal twice
selWithoutRepeatsEachOnceThenNull ==
  (~_isTuning /\ Cardinality(Range(_allowedTraversalOptions))
                   = Len(_allowedTraversalOptions))
    => selEachOnceThenNull(_allowedTraversalOptions, _currentTraversal)

\* ---------------------------------------------------------------------
\* The lock-based sliced traversal with its workers running
\* ---------------------------------------------------------------------
\* what the worker of the slice does next
slWorker(slice) ==
  \/ \E plane \in Planes : slLock(slice, plane)
  \/ slBeginLayer(slice)
  \/ slEndLayer(slice)

\* every worker is a thread of the parallel region and a plain blocking
\* lock: a worker that can go on does go on
SLFairness == \A slice \in Slices : WF_vars(slWorker(slice))

SpecSlicedFair == InitSliced /\ [][SLNext]_vars /\ SLFairness

slWaitsFor(slice, plane) == slPc[slice] = "ready" /\ plane \in slMissing(slice)
slTerminated ==
  /\ \A slice \in Slices : slPc[slice] = "done"
  /\ \A plane \in Planes : locks[plane] = NoSlice

\* C29: the lock-based sliced traversal is deadlock-free: every worker that
\* waits for the lock of a boundary plane eventually holds it, and the
\* traversal ends with every worker done and every lock released
C29_DeadlockFree ==
  /\ \A slice \in Slices, plane \in Planes :
       slWaitsFor(slice, plane) ~> (locks[plane] = slice)
  /\ <>[]slTerminated

\* a worker waits for the lock of a plane another worker holds, while a
\* third waits behind it
C29_Witness ==
  \E slice \in Slices, plane \in Planes :
    /\ slWaitsFor(slice, plane)
    /\ locks[plane] \notin {NoSlice, slice}
    /\ \E other \in Slices \ {slice} : slMissing(other) # {}

\* ---------------------------------------------------------------------
\* Claims on the cluster-thread-partition
\* ---------------------------------------------------------------------
\* the place of a cluster in the order of the towers and their clusters
RECURSIVE cpClustersBefore(_, _)
cpClustersBefore(towers, towerIndex) ==
  IF towerIndex = 0 THEN 0
  ELSE Len(towers[towerIndex]) + cpClustersBefore(towers, towerIndex - 1)

RECURSIVE cpNumClustersUpTo(_, _)
cpNumClustersUpTo(partition, k) ==
  IF k = 0 THEN 0
  ELSE partition[k].numClusters + cpNumClustersUpTo(partition, k - 1)

\* the range of thread k starts at a cluster of a tower, right behind the
\* clusters of the ranges before it
cpRangeFollows(partition, towers, k) ==
  LET r == partition[k]
  IN r.numClusters > 0 =>
       /\ r.startTowerIndex < Len(towers)
       /\ r.startIndexInTower < Len(towers[r.startTowerIndex + 1])
       /\ cpClustersBefore(towers, r.startTowerIndex) + r.startIndexInTower
            = cpNumClustersUpTo(partition, k - 1)

cpPartitionCovers(partition, towers) ==
  /\ \A k \in 1..Len(partition) : cpRangeFollows(partition, towers, k)
  /\ cpNumClustersUpTo(partition, Len(partition))
       = Len(cpClusters(towers))

\* C30: after calculateClusterThreadPartition the cluster ranges are
\* contiguous and disjoint and cover every cluster of every tower once, and
\* their numClusters sum to the number of clusters
C30_PartitionCoversEveryClusterOnce ==
  cpLast.call = "calculateClusterThreadPartition" =>
    /\ Len(_clusterThreadPartition) \in 1..cpLast.maxThreads
    /\ cpPartitionCovers(_clusterThreadPartition, cpTowers)

\* three threads got clusters, one range starts inside a tower, and the
\* last range took clusters after its share was reached
C30_Witness ==
  /\ cpLast.call = "calculateClusterThreadPartition"
  /\ Len(_clusterThreadPartition) = 3
  /\ \A k \in 1..3 : _clusterThreadPartition[k].numClusters > 0
  /\ \E k \in 1..3 : _clusterThreadPartition[k].startIndexInTower > 0
  /\ _clusterThreadPartition[3].numClusters > 1

====
